---- MODULE Spec2Model ----
(***************************************************************************)
(* diem-sqlize: replay of a Diem chain into SQLite.  The model covers the  *)
(* table naming (db.rs), the writer and the reader of resources (db.rs,    *)
(* state.rs), the module store and the dispatch of write-set entries.      *)
(***************************************************************************)
EXTENDS Integers, Sequences, FiniteSets, TLC

VARIABLES
    tag_a, tag_b,      \* two StructTags handed to struct_tag_to_sql
    sql_a, sql_b,      \* the table names computed for them ("" before the call)
    call,              \* a function of the resolver or the annotator called on its own,
                       \* with its arguments
    ret,               \* what the call returned
    module_tbl,        \* the rows of table __module
    tables,            \* every other table of the database, by name
    cache,             \* Resolver.cache of the annotator's resolver: ModuleId -> module
    pc,                \* "idle", "storing" (inside generate_sql), "crashed" (a panic) or
                       \* "resolving" (inside a resolution that never returns)
    pending,           \* the SQL statements generate_sql has still to execute
    cur,               \* the write-set entry dispatched last
    handled,           \* the handler execute_with_annotator called for cur
    last_read,         \* the result of the last StateView::get
    before,            \* history: the database when cur was dispatched
    stored,            \* history: (address, tag) -> the values of the stores that returned
    published,         \* history: ModuleId -> the bytes of the publishes that returned
    n_ops,             \* number of write-set entries dispatched so far
    phase,             \* where main is: "genesis", "genesis_apply", "poll", "sleep",
                       \* "chunk", "exec" or "apply"
    next_version,      \* main's next_version
    latest_version,    \* the version the endpoint reported last
    todo,              \* the versions the chunk iterator of main has still to yield
    versions,          \* the versions of the current chunk
    outputs,           \* the outputs of the VM for the current block, one write set each
    out_i, ent_i,      \* the output and the entry in it the loops of main are at
    applied            \* history: the entries of the current block dispatched so far

nameVars == <<tag_a, tag_b, sql_a, sql_b, call, ret>>
dbVars == <<module_tbl, tables>>
procVars == <<cache, pc, pending, cur, handled, last_read>>
histVars == <<before, stored, published, n_ops>>
replayVars == <<phase, next_version, latest_version, todo, versions, outputs, out_i, ent_i, applied>>
vars == <<nameVars, dbVars, procVars, histVars, replayVars>>

(***************************************************************************)
(* Bounds                                                                  *)
(***************************************************************************)
MaxIdentLen == 4
MaxOps == 3
MaxVersion == 4
\* main replays chunks of 100 versions; the model's chunks are shorter
ChunkSize == 2

(***************************************************************************)
(* TypeTag and StructTag (move_core_types::language_storage)               *)
(***************************************************************************)
TBool == [k |-> "Bool"]
TU8 == [k |-> "U8"]
TU64 == [k |-> "U64"]
TU128 == [k |-> "U128"]
TAddress == [k |-> "Address"]
TVector(e) == [k |-> "Vector", e |-> e]
TStruct(t) == [k |-> "Struct", t |-> t]

StructTag(a, m, n, ps) == [address |-> a, module |-> m, name |-> n, type_params |-> ps]

\* AccountAddress::short_str_lossless: lowercase hex, leading zeros stripped
HexDigit == <<"1", "2", "3", "4", "5", "6", "7", "8", "9", "a", "b", "c", "d", "e", "f">>

short_str_lossless(a) == IF a = 0 THEN "0" ELSE HexDigit[a]

(***************************************************************************)
(* Table naming: db.rs type_param_to_sql / type_params_to_sql /            *)
(* struct_tag_to_sql / vector_table_name                                   *)
(***************************************************************************)
RECURSIVE type_param_to_sql(_), type_params_to_sql(_), struct_tag_to_sql(_)

type_param_to_sql(param) ==
    CASE param.k = "Bool" -> "Bool"
      [] param.k = "U8" -> "U8"
      [] param.k = "U64" -> "U64"
      [] param.k = "U128" -> "U128"
      [] param.k = "Address" -> "Address"
      [] param.k = "Vector" -> "Vector__t_" \o type_param_to_sql(param.e) \o "_t"
      [] param.k = "Struct" -> struct_tag_to_sql(param.t)

\* result.join("__")
type_params_to_sql(params) ==
    IF params = <<>> THEN ""
    ELSE IF Len(params) = 1 THEN type_param_to_sql(params[1])
    ELSE type_param_to_sql(params[1]) \o "__" \o type_params_to_sql(Tail(params))

struct_tag_to_sql(tag) ==
    LET type_params_str ==
            IF tag.type_params # <<>>
            THEN "__t_" \o type_params_to_sql(tag.type_params) \o "_t"
            ELSE ""
    IN  "x" \o short_str_lossless(tag.address) \o "__" \o tag.module
            \o "__" \o tag.name \o type_params_str

vector_table_name(tag, field_name) ==
    struct_tag_to_sql(tag) \o "__" \o field_name \o "__elements"

(***************************************************************************)
(* Compiled modules.  A module blob deserializes to its struct             *)
(* definitions; field types are vm::normalized::Type, which is also what   *)
(* the signature tokens of the definition say.                             *)
(***************************************************************************)
NBool == [k |-> "Bool"]
NU8 == [k |-> "U8"]
NU64 == [k |-> "U64"]
NU128 == [k |-> "U128"]
NAddress == [k |-> "Address"]
NVector(e) == [k |-> "Vector", e |-> e]
NStruct(a, m, n, args) ==
    [k |-> "Struct", address |-> a, module |-> m, name |-> n, type_arguments |-> args]
NTypeParameter(i) == [k |-> "TypeParameter", i |-> i]

Field(n, ty) == [name |-> n, type_ |-> ty]
StructDef(n, np, fs) == [name |-> n, nparams |-> np, is_resource |-> TRUE, fields |-> fs]

ModuleId(a, n) == [address |-> a, name |-> n]

\* the structs of module 0x1::M
StructsOfM ==
    << StructDef("Coin", 0, << Field("value", NU64) >>),
       StructDef("Acct", 0, << Field("key", NVector(NU8)),
                               Field("coin", NStruct(1, "M", "Coin", <<>>)),
                               Field("friends", NVector(NAddress)) >>),
       StructDef("Opt", 0, << Field("len", NU64), Field("vec", NVector(NU64)) >>),
       StructDef("Caps", 0, << Field("list", NVector(NStruct(1, "M", "Coin", <<>>))) >>),
       StructDef("Empty", 0, << >>),
       StructDef("Box", 1, << Field("val", NTypeParameter(0)) >>),
       StructDef("Keys", 0, << Field("list", NVector(NVector(NU8))) >>),
       StructDef("Grid", 0, << Field("rows", NVector(NVector(NU64))) >>),
       StructDef("Pair", 2, << Field("fst", NTypeParameter(0)),
                               Field("snd", NVector(NTypeParameter(1))) >>),
       StructDef("Wrap", 1, << Field("inner",
                                     NStruct(1, "M", "Box", << NTypeParameter(0) >>)) >>),
       StructDef("Purse", 0, << Field("main", NStruct(1, "M", "Coin", <<>>)),
                                Field("rest", NVector(NStruct(1, "M", "Coin", <<>>))) >>) >>

\* the structs of module 0x1::N, which uses a struct of M
StructsOfN ==
    << StructDef("Flag", 0, << Field("on", NBool),
                               Field("fee", NStruct(1, "M", "Coin", <<>>)) >>) >>

\* the structs of modules 0x1::A and 0x1::B, each of which uses structs of the
\* other: X and Z across the two modules without a struct that holds itself,
\* P and Q holding each other, S holding itself; T and U also name a module
\* C that is not stored
StructsOfA ==
    << StructDef("X", 0, << Field("y", NStruct(1, "B", "Y", <<>>)) >>),
       StructDef("W", 0, << Field("v", NU64) >>),
       StructDef("P", 0, << Field("q", NVector(NStruct(1, "B", "Q", <<>>))) >>),
       StructDef("S", 0, << Field("next", NVector(NStruct(1, "A", "S", <<>>))) >>),
       StructDef("T", 0, << Field("gone", NStruct(1, "C", "G", <<>>)),
                            Field("again", NStruct(1, "A", "S", <<>>)) >>),
       StructDef("U", 0, << Field("again", NStruct(1, "A", "S", <<>>)),
                            Field("gone", NStruct(1, "C", "G", <<>>)) >>) >>

StructsOfB ==
    << StructDef("Y", 0, << Field("n", NU64) >>),
       StructDef("Z", 0, << Field("w", NStruct(1, "A", "W", <<>>)) >>),
       StructDef("Q", 0, << Field("p", NVector(NStruct(1, "A", "P", <<>>))) >>) >>

\* module 0x1::a with struct a__a, and module 0x1::a__a with struct a
StructsOf_a == << StructDef("a__a", 0, << Field("x", NU64) >>) >>

StructsOf_a__a == << StructDef("a", 0, << Field("y", NBool) >>) >>

CompiledModule(a, n, code, ss) == [address |-> a, name |-> n, code |-> code, structs |-> ss]

\* the module blobs the chain publishes; two builds of M differ in code only
Blobs == {"M.v1", "M.v2", "N.v1"}

\* CompiledModule::deserialize
Deserialize(data) ==
    CASE data = "M.v1" -> CompiledModule(1, "M", "v1", StructsOfM)
      [] data = "M.v2" -> CompiledModule(1, "M", "v2", StructsOfM)
      [] data = "N.v1" -> CompiledModule(1, "N", "v1", StructsOfN)
      [] data = "A.v1" -> CompiledModule(1, "A", "v1", StructsOfA)
      [] data = "B.v1" -> CompiledModule(1, "B", "v1", StructsOfB)
      [] data = "a.v1" -> CompiledModule(1, "a", "v1", StructsOf_a)
      [] data = "a__a.v1" -> CompiledModule(1, "a__a", "v1", StructsOf_a__a)

ModuleIds == {ModuleId(1, "M"), ModuleId(1, "N")}

\* the blobs the VM publishes under a module id are builds of that module
BlobsOf(id) == {b \in Blobs : Deserialize(b).address = id.address /\ Deserialize(b).name = id.name}

(***************************************************************************)
(* FatType / FatStructType (fat_type.rs)                                   *)
(***************************************************************************)
FVector(e) == [k |-> "Vector", e |-> e]
FStruct(s) == [k |-> "Struct", s |-> s]
FTyParam(i) == [k |-> "TyParam", i |-> i]

Primitive(k) == k \in {"Bool", "U8", "U64", "U128", "Address"}

Ok(x) == [ok |-> TRUE, v |-> x]
Err(why) == [ok |-> FALSE, v |-> why]

\* the `?` operator: the rest of the function runs on the value of an Ok
Then(r, K(_)) == IF r.ok THEN K(r.v) ELSE r
\* Result::map
Map(r, F(_)) == IF r.ok THEN Ok(F(r.v)) ELSE r
\* Result::map_err to a fixed error
OrErr(r, why) == IF r.ok THEN r ELSE Err(why)
\* one step of .collect::<Result<Vec<_>, _>>(): the first error wins
Cons(h, t) == IF ~h.ok THEN h ELSE IF t.ok THEN Ok(<<h.v>> \o t.v) ELSE t

RECURSIVE FatType_subst(_, _), FatStructType_subst(_, _), subst_all(_, _), subst_fields(_, _)

\* a substitution that leaves a type parameter without argument in place
FatType_subst_lenient(ty, ty_args) ==
    CASE ty.k = "TyParam" ->
            IF ty.i + 1 <= Len(ty_args) THEN Ok(ty_args[ty.i + 1]) ELSE Ok(ty)
      [] ty.k = "Vector" -> Map(FatType_subst(ty.e, ty_args), FVector)
      [] ty.k = "Struct" -> Map(FatStructType_subst(ty.s, ty_args), FStruct)
      [] OTHER -> Ok(ty)

\* FatType::subst
FatType_subst(ty, ty_args) ==
    CASE ty.k = "TyParam" ->
            IF ty.i + 1 <= Len(ty_args) THEN Ok(ty_args[ty.i + 1])
            ELSE Err("fat type substitution failed: index out of bounds")
      [] ty.k = "Vector" -> Map(FatType_subst(ty.e, ty_args), FVector)
      [] ty.k = "Struct" -> Map(FatStructType_subst(ty.s, ty_args), FStruct)
      [] OTHER -> Ok(ty)

\* .iter().map(|ty| ty.subst(ty_args)).collect::<PartialVMResult<_>>()
subst_all(tys, ty_args) ==
    IF tys = <<>> THEN Ok(<<>>)
    ELSE Cons(FatType_subst(Head(tys), ty_args), subst_all(Tail(tys), ty_args))

\* the same over the (name, type) pairs of the fields
subst_fields(fs, ty_args) ==
    IF fs = <<>> THEN Ok(<<>>)
    ELSE Cons(Map(FatType_subst(Head(fs)[2], ty_args), LAMBDA ty : <<Head(fs)[1], ty>>),
              subst_fields(Tail(fs), ty_args))

\* FatStructType::subst
FatStructType_subst(st, ty_args) ==
    Then(subst_all(st.ty_args, ty_args), LAMBDA a :
        Map(subst_fields(st.fields, ty_args), LAMBDA f :
            [st EXCEPT !.ty_args = a, !.fields = f]))

RECURSIVE FatType_type_tag(_), FatStructType_struct_tag(_), type_tags(_)

\* FatType::type_tag
FatType_type_tag(ty) ==
    CASE ty.k = "TyParam" -> Err("cannot derive type tag")
      [] ty.k = "Vector" -> Map(FatType_type_tag(ty.e), TVector)
      [] ty.k = "Struct" -> Map(FatStructType_struct_tag(ty.s), TStruct)
      [] OTHER -> Ok(ty)

type_tags(tys) ==
    IF tys = <<>> THEN Ok(<<>>)
    ELSE Cons(FatType_type_tag(Head(tys)), type_tags(Tail(tys)))

\* FatStructType::struct_tag
FatStructType_struct_tag(st) ==
    Map(type_tags(st.ty_args), LAMBDA a : StructTag(st.address, st.module, st.name, a))

(***************************************************************************)
(* Resolver (resolver.rs).  A resolution reads modules through get_module: *)
(* env is what get_module can return, the cache first and then __module.   *)
(* A result carries the ids get_module returned, which the cache gains.    *)
(***************************************************************************)
ROk(x, used) == [ok |-> TRUE, v |-> x, used |-> used]
RErr(why, used) == [ok |-> FALSE, v |-> why, used |-> used]

\* a result that read no module
Lift(r) == [ok |-> r.ok, v |-> r.v, used |-> {}]
\* a result that also read the modules u
Using(r, u) == [r EXCEPT !.used = @ \cup u]
\* the `?` operator on a resolution
RThen(r, K(_)) == IF r.ok THEN Using(K(r.v), r.used) ELSE r
RMap(r, F(_)) == IF r.ok THEN ROk(F(r.v), r.used) ELSE r
\* one step of .collect::<Result<Vec<_>>>() over resolutions
RCons(h, t) ==
    IF ~h.ok THEN h
    ELSE IF t.ok THEN ROk(<<h.v>> \o t.v, h.used \cup t.used)
    ELSE RErr(t.v, h.used \cup t.used)

\* a lookup in __module that compares the address only
ModuleRowsByAddress(tbl, id) ==
    SelectSeq(tbl, LAMBDA r : r.address = id.address)

\* the rows of __module for (address, name), in rowid order
ModuleRows(tbl, id) ==
    SelectSeq(tbl, LAMBDA r : r.address = id.address /\ r.name = id.name)

StoredIds(tbl) == {ModuleId(tbl[i].address, tbl[i].name) : i \in 1..Len(tbl)}

\* a get_module that never reads __module
ModuleEnvCachedOnly(c, tbl) == c

\* what Resolver::get_module finds: the cached module, else the decoded row
ModuleEnv(c, tbl) ==
    [id \in (DOMAIN c) \cup StoredIds(tbl) |->
        IF id \in DOMAIN c THEN c[id] ELSE Deserialize(ModuleRows(tbl, id)[1].data)]

\* Resolver::get_module
Resolver_get_module(env, address, name) ==
    IF ModuleId(address, name) \in DOMAIN env
    THEN ROk(env[ModuleId(address, name)], {ModuleId(address, name)})
    ELSE RErr("module not found", {})

\* the index of the first struct definition of that name
StructIndex(structs, name) ==
    CHOOSE i \in 1..Len(structs) :
        /\ structs[i].name = name
        /\ \A j \in 1..(i - 1) : structs[j].name # name

\* find_struct_def_in_module
find_struct_def_in_module(module, name) ==
    IF \E i \in 1..Len(module.structs) : module.structs[i].name = name
    THEN Ok(StructIndex(module.structs, name))
    ELSE Err("struct not found")

\* A resolution that never returns.  resolve_struct_definition of a definition
\* depends on the modules only, so a definition that is entered again while it
\* is being resolved is entered again without end; `stack` holds the
\* definitions being resolved, the calls of resolve_struct_definition that
\* have not returned
NeverReturns(used) == [ok |-> FALSE, v |-> "never returns", used |-> used]

\* the resolution r is one that never returns
Loops(r) == ~r.ok /\ r.v = "never returns"

RECURSIVE resolve_signature(_, _, _), resolve_signatures(_, _, _),
          resolve_struct_handle(_, _, _), resolve_struct_definition(_, _, _, _),
          resolve_fields(_, _, _)

\* Resolver::resolve_signature
resolve_signature(env, sig, stack) ==
    CASE Primitive(sig.k) -> ROk([k |-> sig.k], {})
      [] sig.k = "Vector" -> RMap(resolve_signature(env, sig.e, stack), FVector)
      [] sig.k = "Struct" ->
            RThen(resolve_struct_handle(env, sig, stack), LAMBDA struct_ty :
                IF sig.type_arguments = <<>> THEN ROk(FStruct(struct_ty), {})
                ELSE RThen(resolve_signatures(env, sig.type_arguments, stack), LAMBDA args :
                        Lift(Map(OrErr(FatStructType_subst(struct_ty, args),
                                       "substitution failure"), FStruct))))
      [] sig.k = "TypeParameter" -> ROk(FTyParam(sig.i), {})
      [] OTHER -> RErr("unexpected reference", {})

resolve_signatures(env, sigs, stack) ==
    IF sigs = <<>> THEN ROk(<<>>, {})
    ELSE RCons(resolve_signature(env, Head(sigs), stack),
               resolve_signatures(env, Tail(sigs), stack))

\* Resolver::resolve_struct_handle
resolve_struct_handle(env, handle, stack) ==
    RThen(Resolver_get_module(env, handle.address, handle.module), LAMBDA target_module :
        RThen(Lift(find_struct_def_in_module(target_module, handle.name)), LAMBDA target_idx :
            resolve_struct_definition(env, target_module, target_idx, stack)))

\* the (name, type) pairs of the field definitions
resolve_fields(env, defs, stack) ==
    IF defs = <<>> THEN ROk(<<>>, {})
    ELSE RCons(RMap(resolve_signature(env, Head(defs).type_, stack),
                    LAMBDA ty : <<Head(defs).name, ty>>),
               resolve_fields(env, Tail(defs), stack))

\* the formal type parameters of a definition
TyParams(n) == IF n = 0 THEN <<>> ELSE [i \in 1..n |-> FTyParam(i - 1)]

\* a resolve_struct_definition that does not return when called for a field
\* of another definition
resolve_struct_definition_flat(env, module, idx, stack) ==
    IF stack # {} THEN NeverReturns({})
    ELSE RMap(resolve_fields(env, module.structs[idx].fields,
                             stack \cup {<<module.address, module.name, idx>>}),
              LAMBDA layout :
            [address |-> module.address,
             module |-> module.name,
             name |-> module.structs[idx].name,
             is_resource |-> module.structs[idx].is_resource,
             ty_args |-> TyParams(module.structs[idx].nparams),
             fields |-> layout])

\* Resolver::resolve_struct_definition
resolve_struct_definition(env, module, idx, stack) ==
    IF <<module.address, module.name, idx>> \in stack THEN NeverReturns({})
    ELSE RMap(resolve_fields(env, module.structs[idx].fields,
                             stack \cup {<<module.address, module.name, idx>>}),
              LAMBDA layout :
            [address |-> module.address,
             module |-> module.name,
             name |-> module.structs[idx].name,
             is_resource |-> module.structs[idx].is_resource,
             ty_args |-> TyParams(module.structs[idx].nparams),
             fields |-> layout])

RECURSIVE Resolver_resolve_type(_, _), Resolver_resolve_struct(_, _), resolve_types(_, _)

\* Resolver::resolve_type
Resolver_resolve_type(env, type_tag) ==
    CASE type_tag.k = "Struct" -> RMap(Resolver_resolve_struct(env, type_tag.t), FStruct)
      [] type_tag.k = "Vector" -> RMap(Resolver_resolve_type(env, type_tag.e), FVector)
      [] OTHER -> ROk([k |-> type_tag.k], {})

resolve_types(env, tys) ==
    IF tys = <<>> THEN ROk(<<>>, {})
    ELSE RCons(Resolver_resolve_type(env, Head(tys)), resolve_types(env, Tail(tys)))

\* Resolver::resolve_struct
Resolver_resolve_struct(env, struct_tag) ==
    RThen(Resolver_get_module(env, struct_tag.address, struct_tag.module), LAMBDA module :
        RThen(Lift(find_struct_def_in_module(module, struct_tag.name)), LAMBDA struct_def :
            RThen(resolve_types(env, struct_tag.type_params), LAMBDA ty_args :
                RThen(resolve_struct_definition(env, module, struct_def, {}), LAMBDA ty_body :
                    Lift(OrErr(FatStructType_subst(ty_body, ty_args),
                               "struct cannot be resolved"))))))

\* a cache that keeps only the modules the last resolution read
CacheOfUsed(c, env, used) == [id \in used |-> env[id]]

\* the cache after a resolution that read the modules `used`
CacheAfter(c, env, used) == [id \in (DOMAIN c) \cup used |-> env[id]]

\* the first row of __module for the tag's module, decoded
StoredModule(tag, tbl) ==
    Deserialize(ModuleRows(tbl, ModuleId(tag.address, tag.module))[1].data)

\* resolver::resolve_struct (the reader's): the normalized Struct, read from
\* __module without the cache
resolve_struct(tag, tbl) ==
    IF ModuleRows(tbl, ModuleId(tag.address, tag.module)) = <<>> THEN Err("module unknown")
    ELSE Then(OrErr(find_struct_def_in_module(StoredModule(tag, tbl), tag.name),
                    "struct unknown"),
              LAMBDA idx : Ok(StoredModule(tag, tbl).structs[idx]))

(***************************************************************************)
(* Values.  A MoveValue is [k, v]; a resource blob is the BCS encoding of  *)
(* a MoveValue, which bcs (an external crate) decodes back to the same     *)
(* value under the layout of its type, so a blob is written as the value   *)
(* it encodes.  An AnnotatedMoveValue adds the types (annotator.rs).       *)
(***************************************************************************)
MV(k, v) == [k |-> k, v |-> v]
MStruct(fields) == [k |-> "Struct", v |-> fields]
MVector(elems) == [k |-> "Vector", v |-> elems]

AV(k, v) == [k |-> k, v |-> v]
ABytes(bs) == [k |-> "Bytes", v |-> bs]
AVector(ty, elems) == [k |-> "Vector", ty |-> ty, v |-> elems]
AStruct(s) == [k |-> "Struct", v |-> s]
AnnotatedMoveStruct(r, tag, value) == [is_resource |-> r, type_ |-> tag, value |-> value]

RECURSIVE Conforms(_, _)
\* MoveStruct::simple_deserialize(blob, layout) succeeds on the blobs of
\* values of that layout
Conforms(mv, ty) ==
    CASE ty.k = "Vector" ->
            mv.k = "Vector" /\ \A i \in 1..Len(mv.v) : Conforms(mv.v[i], ty.e)
      [] ty.k = "Struct" ->
            /\ mv.k = "Struct"
            /\ Len(mv.v) = Len(ty.s.fields)
            /\ \A i \in 1..Len(mv.v) : Conforms(mv.v[i], ty.s.fields[i][2])
      [] ty.k = "TyParam" -> FALSE
      [] OTHER -> mv.k = ty.k

Min(a, b) == IF a <= b THEN a ELSE b

RECURSIVE annotate_struct(_, _), annotate_value(_, _), annotate_zip(_, _, _), annotate_elems(_, _)

\* MoveValueAnnotator::annotate_struct
annotate_struct(move_struct, ty) ==
    Then(FatStructType_struct_tag(ty), LAMBDA struct_tag :
        Map(annotate_zip(ty.fields, move_struct.v, 1), LAMBDA fs :
            AnnotatedMoveStruct(ty.is_resource, struct_tag, fs)))

\* ty.fields.iter().zip(move_struct.fields().iter()): stops at the shorter
annotate_zip(fields, values, i) ==
    IF i > Min(Len(fields), Len(values)) THEN Ok(<<>>)
    ELSE Cons(Map(annotate_value(values[i], fields[i][2]), LAMBDA v : <<fields[i][1], v>>),
              annotate_zip(fields, values, i + 1))

annotate_elems(elems, ty) ==
    IF elems = <<>> THEN Ok(<<>>)
    ELSE Cons(annotate_value(Head(elems), ty), annotate_elems(Tail(elems), ty))

\* MoveValueAnnotator::annotate_value
annotate_value(value, ty) ==
    CASE Primitive(value.k) /\ ty.k = value.k -> Ok(AV(value.k, value.v))
      [] value.k = "Vector" /\ ty.k = "Vector" ->
            IF ty.e.k = "U8"
            THEN IF \A i \in 1..Len(value.v) : value.v[i].k = "U8"
                 THEN Ok(ABytes([i \in 1..Len(value.v) |-> value.v[i].v]))
                 ELSE Err("unexpected value type")
            ELSE Then(OrErr(FatType_type_tag(ty.e), "panic"), LAMBDA tag :
                    Map(annotate_elems(value.v, ty.e), LAMBDA values : AVector(tag, values)))
      [] value.k = "Struct" /\ ty.k = "Struct" -> Map(annotate_struct(value, ty.s), AStruct)
      [] OTHER -> Err("Cannot annotate value")

\* MoveValueAnnotator::view_resource: resolve, deserialize, annotate
view_resource(env, tag, blob) ==
    RThen(Resolver_resolve_struct(env, tag), LAMBDA ty :
        IF ~Conforms(blob, FStruct(ty)) THEN RErr("deserialization", {})
        ELSE Lift(annotate_struct(blob, ty)))

(***************************************************************************)
(* The SQLite database.  A table is its column definitions and its rows    *)
(* in rowid order; a row is its rowid and its column values.  A column     *)
(* declared INTEGER PRIMARY KEY is the rowid.                              *)
(***************************************************************************)
Col(n, decl) == [name |-> n, decl |-> decl]

SqlInt(n) == [t |-> "int", v |-> n]
SqlBlob(bs) == [t |-> "blob", v |-> bs]

CreateTable(name, cols) == [op |-> "CREATE", table |-> name, cols |-> cols]
Insert(name, names, values) ==
    [op |-> "INSERT", table |-> name, names |-> names, values |-> values]
Panic(why) == [op |-> "PANIC", why |-> why]

SeqRange(s) == {s[i] : i \in 1..Len(s)}
ColNames(cols) == [i \in 1..Len(cols) |-> cols[i].name]
PkCols(cols) == {c.name : c \in {d \in SeqRange(cols) : d.decl = "INTEGER PRIMARY KEY"}}
\* a table declared without its UNIQUE constraint
NoUniqueCols(cols) == {}

UniqueCols(cols) == {c.name : c \in {d \in SeqRange(cols) : d.decl = "BLOB UNIQUE NOT NULL"}}
NotNullCols(cols) == {c.name : c \in {d \in SeqRange(cols) : d.decl # "INTEGER PRIMARY KEY"}}

IndexOf(s, x) == CHOOSE i \in 1..Len(s) : s[i] = x

\* the value of column c of a row
ColumnValue(tbl, row, c) ==
    IF c \in PkCols(tbl.cols) THEN SqlInt(row.rowid) ELSE row.vals[c]

SqlDone(T, rowid) == [ok |-> TRUE, T |-> T, rowid |-> rowid]
SqlError(T) == [ok |-> FALSE, T |-> T, rowid |-> 0]

\* sqlx::query(sql).execute(db) of one statement on the tables T
Exec(T, stmt) ==
    CASE stmt.op = "CREATE" ->
            \* a column list with an empty entry does not parse
            IF \E c \in SeqRange(stmt.cols) : c.name = "" THEN SqlError(T)
            ELSE IF stmt.table \in DOMAIN T THEN SqlDone(T, 0)
            ELSE SqlDone(T @@ (stmt.table :> [cols |-> stmt.cols, rows |-> <<>>]), 0)
      [] stmt.op = "INSERT" ->
            IF stmt.table \notin DOMAIN T THEN SqlError(T)
            ELSE LET tbl == T[stmt.table]
                     given == SeqRange(stmt.names)
                     vals == [c \in given |-> stmt.values[IndexOf(stmt.names, c)]]
                     rowid == Len(tbl.rows) + 1
                 IN  IF ~(given \subseteq SeqRange(ColNames(tbl.cols))) THEN SqlError(T)
                     ELSE IF ~(NotNullCols(tbl.cols) \subseteq given) THEN SqlError(T)
                     ELSE IF \E c \in UniqueCols(tbl.cols) \cap given :
                                \E i \in 1..Len(tbl.rows) : tbl.rows[i].vals[c] = vals[c]
                          THEN SqlError(T)
                     ELSE SqlDone([T EXCEPT ![stmt.table].rows =
                                        Append(@, [rowid |-> rowid, vals |-> vals])], rowid)
      [] OTHER -> SqlError(T)

(***************************************************************************)
(* The writer (db.rs struct_to_sql, vector_to_sql, generate_sql).  A writer*)
(* state W is the tables, the statements executed so far, whether all of   *)
(* them succeeded and the last insert rowid.                               *)
(***************************************************************************)
\* the writer state after a statement gave r
Ran(r, log) == [ok |-> r.ok, T |-> r.T, log |-> log, id |-> r.rowid]

\* execute one statement; .unwrap() stops the writer at the first failure
Run(W, stmt) == IF ~W.ok THEN W ELSE Ran(Exec(W.T, stmt), Append(W.log, stmt))

RECURSIVE BeBytes(_, _)
\* to_be_bytes of an integer of w bytes
BeBytes(n, w) == IF w = 0 THEN <<>> ELSE BeBytes(n \div 256, w - 1) \o <<n % 256>>

RECURSIVE vector_to_bytes(_)
\* vector_to_bytes
vector_to_bytes(v) ==
    IF v = <<>> THEN <<>>
    ELSE (CASE Head(v).k = "Bool" -> <<IF Head(v).v THEN 1 ELSE 0>>
            [] Head(v).k = "U8" -> <<Head(v).v>>
            [] Head(v).k = "U64" -> BeBytes(Head(v).v, 8)
            [] Head(v).k = "U128" -> BeBytes(Head(v).v, 16))
         \o vector_to_bytes(Tail(v))

\* the bytes of an AccountAddress
AddressBytes(a) == <<a>>

InlineVector(ty) == ty.k \in {"Bool", "U8", "U64", "U128"}

\* field_names.push, fields.push, values.push
PushColumn(acc, ident, decl, value) ==
    [acc EXCEPT !.field_names = Append(@, ident),
                !.fields = Append(@, Col(ident, decl)),
                !.values = Append(@, value)]

\* the first loop after the nested struct_to_sql gave W
PushStruct(acc, ident, W) ==
    IF ~W.ok THEN [acc EXCEPT !.ok = FALSE, !.T = W.T, !.log = @ \o W.log]
    ELSE PushColumn([acc EXCEPT !.T = W.T, !.log = @ \o W.log],
                    ident, "INTEGER NOT NULL", SqlInt(W.id))

\* the writer state the first loop starts from
NoColumns(T) ==
    [ok |-> TRUE, T |-> T, log |-> <<>>, id |-> 0,
     field_names |-> <<>>,
     fields |-> << Col("__id", "INTEGER PRIMARY KEY") >>,
     values |-> <<>>]

\* INSERT INTO name (parent_id, slot) VALUES (pid, slot)
InsertElement(name, pid, slot) ==
    Insert(name, <<"parent_id", "slot">>, <<SqlInt(pid), slot>>)

\* an element insert logged before the statements of the element's struct
PushElementFirst(name, pid, W, S) ==
    [S EXCEPT !.log = Append(W.log, InsertElement(name, pid, SqlInt(S.id))) \o @]

\* the element insert after the element's struct_to_sql gave S
PushElement(name, pid, W, S) ==
    Run([S EXCEPT !.log = W.log \o @], InsertElement(name, pid, SqlInt(S.id)))

\* an element table that gives every vector element a BLOB slot
ElementColumnAnyVector(ty) ==
    CASE ty.k = "Address" -> Col("slot", "BLOB NOT NULL")
      [] ty.k = "Vector" -> Col("slot", "BLOB NOT NULL")
      [] ty.k = "Struct" -> Col("slot", "INTEGER NOT NULL")

\* the column of the elements in an element table
ElementColumn(ty) ==
    CASE ty.k = "Address" -> Col("slot", "BLOB NOT NULL")
      [] ty.k = "Vector" ->
            IF ty.e.k = "U8" THEN Col("slot", "BLOB NOT NULL") ELSE Col("", "")
      [] ty.k = "Struct" -> Col("slot", "INTEGER NOT NULL")

RECURSIVE struct_to_sql(_, _), fields_to_sql(_, _, _), vectors_to_sql(_, _, _, _),
          vector_to_sql(_, _, _, _, _), elems_to_sql(_, _, _, _, _), row_to_sql(_, _, _)

\* struct_to_sql, first loop from field i on: acc is the writer state with
\* field_names, fields and values
fields_to_sql(struct_, i, acc) ==
    IF i > Len(struct_.value) \/ ~acc.ok THEN acc
    ELSE LET ident == struct_.value[i][1]
             val == struct_.value[i][2]
         IN  fields_to_sql(struct_, i + 1,
                CASE val.k = "U8" -> PushColumn(acc, ident, "INTEGER NOT NULL", SqlInt(val.v))
                  [] val.k = "U64" -> PushColumn(acc, ident, "INTEGER NOT NULL", SqlInt(val.v))
                  [] val.k = "U128" ->
                        PushColumn(acc, ident, "BLOB NOT NULL", SqlBlob(BeBytes(val.v, 16)))
                  [] val.k = "Bool" ->
                        PushColumn(acc, ident, "BOOLEAN NOT NULL", SqlInt(IF val.v THEN 1 ELSE 0))
                  [] val.k = "Address" ->
                        PushColumn(acc, ident, "BLOB NOT NULL", SqlBlob(AddressBytes(val.v)))
                  [] val.k = "Bytes" -> PushColumn(acc, ident, "BLOB NOT NULL", SqlBlob(val.v))
                  [] val.k = "Struct" -> PushStruct(acc, ident, struct_to_sql(val.v, acc.T))
                  [] val.k = "Vector" ->
                        IF InlineVector(val.ty)
                        THEN PushColumn(acc, ident, "BLOB NOT NULL",
                                        SqlBlob(vector_to_bytes(val.v)))
                        ELSE acc)

\* vector_to_sql, the loop over the elements from element i on
elems_to_sql(name, pid, v, i, W) ==
    IF i > Len(v) \/ ~W.ok THEN W
    ELSE elems_to_sql(name, pid, v, i + 1,
            CASE v[i].k = "Address" ->
                    Run(W, InsertElement(name, pid, SqlBlob(AddressBytes(v[i].v))))
              [] v[i].k = "Struct" -> PushElement(name, pid, W, struct_to_sql(v[i].v, W.T))
              [] v[i].k = "Bytes" -> Run(W, InsertElement(name, pid, SqlBlob(v[i].v)))
              [] v[i].k = "Vector" -> Run(W, Panic("not yet implemented"))
              [] OTHER -> Run(W, Panic("unreachable")))

\* vector_to_sql
vector_to_sql(name, pid, ty, v, W) ==
    elems_to_sql(name, pid, v, 1,
        Run(W, CreateTable(name, << Col("id", "INTEGER PRIMARY KEY"),
                                    Col("parent_id", "INTEGER NOT NULL"),
                                    ElementColumn(ty) >>)))

\* struct_to_sql, second loop: the complex vectors of the struct
vectors_to_sql(struct_, id, i, W) ==
    IF i > Len(struct_.value) \/ ~W.ok THEN W
    ELSE vectors_to_sql(struct_, id, i + 1,
            IF struct_.value[i][2].k = "Vector" /\ ~InlineVector(struct_.value[i][2].ty)
            THEN vector_to_sql(vector_table_name(struct_.type_, struct_.value[i][1]), id,
                               struct_.value[i][2].ty, struct_.value[i][2].v, W)
            ELSE W)

\* the second loop on the writer state W of the struct's insert; the id
\* returned is the one of that insert
InsertedThenVectors(struct_, W) == [vectors_to_sql(struct_, W.id, 1, W) EXCEPT !.id = W.id]

\* struct_to_sql after the first loop gave acc: the struct's CREATE and INSERT
row_to_sql(struct_, table, acc) ==
    IF struct_.value # <<>>
    THEN InsertedThenVectors(struct_,
            Run(Run([ok |-> acc.ok, T |-> acc.T, log |-> acc.log, id |-> 0],
                    CreateTable(table, acc.fields)),
                Insert(table, acc.field_names, acc.values)))
    ELSE Run(Run([ok |-> acc.ok, T |-> acc.T, log |-> acc.log, id |-> 0],
                 CreateTable(table, << Col("id", "INTEGER PRIMARY KEY") >>)),
             Insert(table, <<>>, <<>>))

\* struct_to_sql: the writer state after writing struct_, id the row's id
struct_to_sql(struct_, T) ==
    row_to_sql(struct_, struct_tag_to_sql(struct_.type_),
               fields_to_sql(struct_, 1, NoColumns(T)))

\* generate_sql after struct_to_sql gave W: attach the row to global storage
root_to_sql(address, root, W) ==
    Run(Run(W, CreateTable(root, << Col("address", "BLOB UNIQUE NOT NULL"),
                                    Col("id", "INTEGER NOT NULL") >>)),
        Insert(root, <<"address", "id">>, <<SqlBlob(AddressBytes(address)), SqlInt(W.id)>>))

\* a generate_sql that attaches the address to global storage before it
\* writes the struct
generate_sql_root_first(address, struct_, T) ==
    LET R == root_to_sql(address, "__root__" \o struct_tag_to_sql(struct_.type_),
                         [ok |-> TRUE, T |-> T, log |-> <<>>, id |-> 0])
    IN  [struct_to_sql(struct_, R.T) EXCEPT !.log = R.log \o @]

\* generate_sql: write the struct, then attach it to global storage
generate_sql(address, struct_, T) ==
    root_to_sql(address, "__root__" \o struct_tag_to_sql(struct_.type_),
                struct_to_sql(struct_, T))

(***************************************************************************)
(* The reader (db.rs fetch_struct, struct_columns, fetch_vector).  Every   *)
(* failure of the reader is a panic (.unwrap(), todo!(), unreachable!()),  *)
(* written Err(..).                                                        *)
(***************************************************************************)
RECURSIVE into_type_tag(_), into_type_tags(_)
\* vm::normalized::Type::into_type_tag: None on a type parameter
into_type_tag(ty) ==
    CASE ty.k = "TypeParameter" -> Err("None")
      [] ty.k = "Vector" -> Map(into_type_tag(ty.e), TVector)
      [] ty.k = "Struct" ->
            Map(into_type_tags(ty.type_arguments), LAMBDA params :
                TStruct(StructTag(ty.address, ty.module, ty.name, params)))
      [] OTHER -> Ok([k |-> ty.k])

into_type_tags(tys) ==
    IF tys = <<>> THEN Ok(<<>>)
    ELSE Cons(into_type_tag(Head(tys)), into_type_tags(Tail(tys)))

\* whether struct_columns gives the field a column; "panic" when it indexes
\* tag.type_params out of range
has_column(tag, field) ==
    CASE field.type_.k = "Vector" -> IF field.type_.e.k = "U8" THEN "yes" ELSE "no"
      [] field.type_.k = "TypeParameter" ->
            IF field.type_.i + 1 > Len(tag.type_params) THEN "panic"
            ELSE LET p == tag.type_params[field.type_.i + 1]
                 IN  IF p.k = "Vector" THEN (IF p.e.k = "U8" THEN "yes" ELSE "no")
                     ELSE "yes"
      [] OTHER -> "yes"

\* struct_columns
struct_columns(tag, struct_) ==
    LET keep == SelectSeq(struct_.fields, LAMBDA f : has_column(tag, f) = "yes")
    IN  IF \E f \in SeqRange(struct_.fields) : has_column(tag, f) = "panic"
        THEN Err("index out of bounds")
        ELSE Ok([i \in 1..Len(keep) |-> keep[i].name])

\* SELECT <columns> FROM <table> WHERE <key> = <id> [ORDER BY rowid]: the
\* selected values of the matching rows, or an error
Select(T, columns, table, key, id) ==
    IF columns = <<>> \/ table \notin DOMAIN T THEN Err("sql")
    ELSE LET tbl == T[table]
             names == SeqRange(ColNames(tbl.cols))
         IN  IF ~(SeqRange(columns) \subseteq names) \/ key \notin names THEN Err("sql")
             ELSE LET hit == SelectSeq(tbl.rows,
                                LAMBDA r : ColumnValue(tbl, r, key) = id)
                  IN  Ok([j \in 1..Len(hit) |->
                            [i \in 1..Len(columns) |-> ColumnValue(tbl, hit[j], columns[i])]])

RECURSIVE FromBe(_)
\* from_be_bytes
FromBe(bs) == IF bs = <<>> THEN 0 ELSE FromBe(SubSeq(bs, 1, Len(bs) - 1)) * 256 + bs[Len(bs)]

\* row.get of a column as the Rust type the reader asks for.  The U64 values
\* of the resources stored here are below 2^63, where the column holds the
\* integer itself; u64_column and get_i64 cover the whole range
GetBool(x) == IF x.t = "int" THEN Ok(MV("Bool", x.v # 0)) ELSE Err("decode")
GetU8(x) == IF x.t = "int" THEN Ok(MV("U8", x.v % 256)) ELSE Err("decode")
GetU64(x) == IF x.t = "int" THEN Ok(MV("U64", x.v)) ELSE Err("decode")
GetU128(x) ==
    IF x.t = "blob" /\ Len(x.v) = 16 THEN Ok(MV("U128", FromBe(x.v))) ELSE Err("decode")
GetAddress(x) ==
    IF x.t = "blob" /\ Len(x.v) = 1 THEN Ok(MV("Address", x.v[1])) ELSE Err("decode")
GetBytes(x) ==
    IF x.t = "blob" THEN Ok(MVector([i \in 1..Len(x.v) |-> MV("U8", x.v[i])]))
    ELSE Err("decode")

\* ElementKind of fetch_vector
element_kind(tag, elem_type) ==
    CASE elem_type.k = "Vector" -> IF elem_type.e.k = "U8" THEN "Bytes" ELSE "Vector"
      [] elem_type.k = "TypeParameter" ->
            IF elem_type.i + 1 > Len(tag.type_params) THEN "panic"
            ELSE LET p == tag.type_params[elem_type.i + 1]
                 IN  IF p.k = "Vector" THEN (IF p.e.k = "U8" THEN "Bytes" ELSE "Vector")
                     ELSE p.k
      [] OTHER -> elem_type.k

\* fetch_vector, the closure mapped over the rows
decode_slot(kind, x) ==
    CASE kind = "Bool" -> GetBool(x)
      [] kind = "U8" -> GetU8(x)
      [] kind = "U64" -> GetU64(x)
      [] kind = "U128" -> GetU128(x)
      [] kind = "Address" -> GetAddress(x)
      [] kind = "Bytes" -> GetBytes(x)
      [] kind = "Struct" -> Err("not yet implemented")

RECURSIVE decode_slots(_, _)
\* the map over the rows of fetch_vector
decode_slots(kind, rows) ==
    IF rows = <<>> THEN Ok(<<>>)
    ELSE Cons(decode_slot(kind, Head(rows)[1]), decode_slots(kind, Tail(rows)))

\* fetch_vector
fetch_vector(tag, id, field_name, elem_type, T) ==
    IF element_kind(tag, elem_type) \in {"panic", "Vector"} THEN Err("not yet implemented")
    ELSE Then(Select(T, <<"slot">>, vector_table_name(tag, field_name), "parent_id", SqlInt(id)),
              LAMBDA rows : decode_slots(element_kind(tag, elem_type), rows))

\* the type a field is read as: a type parameter reads as its argument
FieldArg(tag, ty) == IF ty.k = "TypeParameter" THEN tag.type_params[ty.i + 1] ELSE ty

\* the TypeTag of a struct field: the argument, or the tag made of the type
SubTag(tag, ty) == IF ty.k = "TypeParameter" THEN Ok(FieldArg(tag, ty)) ELSE into_type_tag(ty)

\* fields other than complex vectors take the next column of the row
HasOwnColumn(ty) == ~(ty.k = "Vector" /\ ty.e.k # "U8")

\* .fetch_one(): exactly the first row, an error when there is none
FetchOne(rows) == IF ~rows.ok \/ rows.v = <<>> THEN Err("unwrap") ELSE Ok(rows.v[1])

RECURSIVE fetch_struct(_, _, _), fetch_fields(_, _, _, _, _, _, _), fetch_field(_, _, _, _, _)

\* fetch_struct, one field: its value, read from column `at` of the row
fetch_field(tag, id, field, at, db) ==
    LET ty == field.type_
        arg == FieldArg(tag, field.type_)
    IN  CASE ty.k = "Vector" /\ ty.e.k = "U8" -> GetBytes(at)
          [] ty.k = "Vector" /\ ty.e.k # "U8" ->
                Map(fetch_vector(tag, id, field.name, ty.e, db.tables), MVector)
          [] ty.k = "TypeParameter" /\ arg.k = "Vector" -> Err("vectors todo")
          [] ty.k # "Vector" /\ arg.k = "Bool" -> GetBool(at)
          [] ty.k # "Vector" /\ arg.k = "U8" -> GetU8(at)
          [] ty.k # "Vector" /\ arg.k = "U64" -> GetU64(at)
          [] ty.k # "Vector" /\ arg.k = "U128" -> GetU128(at)
          [] ty.k # "Vector" /\ arg.k = "Address" -> GetAddress(at)
          [] ty.k # "Vector" /\ arg.k = "Struct" ->
                IF at.t # "int" THEN Err("unwrap")
                ELSE Then(OrErr(SubTag(tag, ty), "unwrap"), LAMBDA sub_tag :
                        fetch_struct(sub_tag.t, at.v, db))

\* fetch_struct, the loop over the fields from field i on
fetch_fields(tag, id, struct_, row, i, column_index, db) ==
    IF i > Len(struct_.fields) THEN Ok(<<>>)
    ELSE Cons(fetch_field(tag, id, struct_.fields[i], row[column_index + 1], db),
              fetch_fields(tag, id, struct_, row, i + 1,
                           IF HasOwnColumn(struct_.fields[i].type_)
                           THEN column_index + 1 ELSE column_index, db))

\* fetch_struct: the MoveValue of row id of the table of tag
fetch_struct(tag, id, db) ==
    Then(OrErr(resolve_struct(tag, db.module_tbl), "unwrap"), LAMBDA struct_ :
        Then(struct_columns(tag, struct_), LAMBDA columns :
            Then(FetchOne(Select(db.tables, columns, struct_tag_to_sql(tag), "__id", SqlInt(id))),
                 LAMBDA row :
                    Map(fetch_fields(tag, id, struct_, row, 1, 0, db), MStruct))))

(***************************************************************************)
(* The state view (state.rs SqlState::get)                                 *)
(***************************************************************************)
CodePath(id) == [k |-> "Code", id |-> id]
ResourcePath(tag) == [k |-> "Resource", tag |-> tag]

Absent == [r |-> "None"]
Some(x) == [r |-> "Some", v |-> x]
Panicked == [r |-> "panic"]

\* SqlState::get of a Code path: the data of the module's row
get_code(module_id, db) ==
    IF ModuleRows(db.module_tbl, module_id) = <<>> THEN Absent
    ELSE Some(ModuleRows(db.module_tbl, module_id)[1].data)

\* the bytes of a fetched struct, or the panic of fetch_struct
SomeBytes(struct_) == IF struct_.ok THEN Some(struct_.v) ELSE Panicked

\* SqlState::get of a Resource path after the root query gave result
get_rooted(struct_tag, result, db) ==
    IF ~result.ok THEN Panicked
    ELSE IF result.v = <<>> THEN Absent
    ELSE IF result.v[1][1].t # "int" THEN Panicked
    ELSE SomeBytes(fetch_struct(struct_tag, result.v[1][1].v, db))

\* SqlState::get of a Resource path: the root row, then fetch_struct; the
\* bytes returned are the BCS encoding of the fetched value
get_resource(address, struct_tag, db) ==
    get_rooted(struct_tag,
               Select(db.tables, <<"id">>, "__root__" \o struct_tag_to_sql(struct_tag),
                      "address", SqlBlob(AddressBytes(address))),
               db)

\* SqlState::get
SqlState_get(address, path, db) ==
    IF path.k = "Code" THEN get_code(path.id, db)
    ELSE get_resource(address, path.tag, db)

DB == [module_tbl |-> module_tbl, tables |-> tables]

(***************************************************************************)
(* The write-set entries and reads the operations are exercised on         *)
(***************************************************************************)
Accounts == {10, 11}

MTag(name) == StructTag(1, "M", name, <<>>)
BoxTag(arg) == StructTag(1, "M", "Box", <<arg>>)
FlagTag == StructTag(1, "N", "Flag", <<>>)

Coin(n) == MStruct(<< MV("U64", n) >>)
Bytes(bs) == MVector([i \in 1..Len(bs) |-> MV("U8", bs[i])])
Addrs(as) == MVector([i \in 1..Len(as) |-> MV("Address", as[i])])

\* resources of each tag, as (tag, value) pairs
Resources ==
    {<<MTag("Coin"), Coin(n)>> : n \in {0, 5}}
    \cup {<<MTag("Acct"), MStruct(<< Bytes(<<>>), Coin(0), Addrs(<<>>) >>)>>,
          <<MTag("Acct"), MStruct(<< Bytes(<<7, 9>>), Coin(5), Addrs(<<11, 10>>) >>)>>}
    \cup {<<MTag("Opt"), MStruct(<< MV("U64", 0), MVector(<<>>) >>)>>,
          <<MTag("Opt"), MStruct(<< MV("U64", 1), MVector(<< MV("U64", 5) >>) >>)>>}
    \cup {<<MTag("Caps"), MStruct(<< MVector(<<>>) >>)>>,
          <<MTag("Caps"), MStruct(<< MVector(<< Coin(5), Coin(0) >>) >>)>>}
    \cup {<<MTag("Empty"), MStruct(<<>>)>>}
    \cup {<<BoxTag(TU64), MStruct(<< MV("U64", 5) >>)>>,
          <<BoxTag(TStruct(MTag("Coin"))), MStruct(<< Coin(5) >>)>>}
    \cup {<<FlagTag, MStruct(<< MV("Bool", TRUE), Coin(0) >>)>>}
    \cup {<<MTag("Keys"), MStruct(<< MVector(<<>>) >>)>>,
          <<MTag("Keys"), MStruct(<< MVector(<< Bytes(<<7>>), Bytes(<<>>) >>) >>)>>}
    \cup {<<MTag("Grid"), MStruct(<< MVector(<<>>) >>)>>,
          <<MTag("Grid"), MStruct(<< MVector(<< MVector(<< MV("U64", 5) >>) >>) >>)>>}
    \* a struct nested as a field and structs nested as elements
    \cup {<<MTag("Purse"), MStruct(<< Coin(5), MVector(<< Coin(0), Coin(5) >>) >>)>>}
    \* a tag that lacks the type argument of Box
    \cup {<<MTag("Box"), MStruct(<< MV("U64", 5) >>)>>}

ResourceTags == {r[1] : r \in Resources}

Deletion == [k |-> "Deletion"]
Value(v) == [k |-> "Value", v |-> v]
Entry(address, path, op) == [address |-> address, path |-> path, op |-> op]
NoEntry == Entry(0, [k |-> "None"], [k |-> "None"])

CodeEntries ==
    {Entry(id.address, CodePath(id), Deletion) : id \in ModuleIds}
    \cup UNION {{Entry(id.address, CodePath(id), Value(b)) : b \in BlobsOf(id)} : id \in ModuleIds}

ResourceEntries ==
    {Entry(a, ResourcePath(t), Deletion) : a \in Accounts, t \in ResourceTags}
    \cup {Entry(a, ResourcePath(r[1]), Value(r[2])) : a \in Accounts, r \in Resources}

Entries == CodeEntries \cup ResourceEntries

\* the access paths the VM reads
ReadPaths ==
    {<<id.address, CodePath(id)>> : id \in ModuleIds}
    \cup {<<a, ResourcePath(t)>> : a \in Accounts, t \in ResourceTags}

NoRead == [address |-> 0, path |-> [k |-> "None"], result |-> [r |-> "None"]]

\* no function has been called on its own
NoCall == [fn |-> "none"]
NotCalled == [ok |-> FALSE, v |-> "not called"]

(***************************************************************************)
(* The operations of DB (db.rs), one write-set entry at a time             *)
(***************************************************************************)
\* the history f with value added to the values of key
Push(f, key, value) ==
    [x \in (DOMAIN f) \cup {key} |->
        IF x # key THEN f[x]
        ELSE IF key \in DOMAIN f THEN Append(f[key], value) ELSE <<value>>]

\* an INSERT INTO __module on a table declared without its primary key
insert_module_unkeyed(tbl, id, data) ==
    [ok |-> TRUE,
     tbl |-> Append(tbl, [address |-> id.address, name |-> id.name, data |-> data])]

\* INSERT INTO __module VALUES (?, ?, ?) under PRIMARY KEY (address, name)
insert_module(tbl, id, data) ==
    IF ModuleRows(tbl, id) # <<>> THEN [ok |-> FALSE, tbl |-> tbl]
    ELSE [ok |-> TRUE,
          tbl |-> Append(tbl, [address |-> id.address, name |-> id.name, data |-> data])]

\* main running on without awaiting execute_with_annotator
NotAwaited == pc # "crashed"

\* db.execute_with_annotator(..).await has returned: main runs on
Awaited == pc = "idle"

\* main hands an entry to execute_with_annotator
Dispatching(entry) ==
    /\ Awaited
    /\ cur' = entry
    /\ before' = DB

\* an unpublish that returns without doing anything
unpublish_silently(id) ==
    /\ handled' = "unpublish"
    /\ pc' = "idle"
    /\ UNCHANGED <<dbVars, cache, pending, last_read, stored, published>>

\* DB::unpublish: todo!()
unpublish(id) ==
    /\ handled' = "unpublish"
    /\ pc' = "crashed"
    /\ UNCHANGED <<dbVars, cache, pending, last_read, stored, published>>

\* a publish that also creates a root table named after the module
published_row_and_table(id, data, r) ==
    /\ handled' = "publish"
    /\ module_tbl' = r.tbl
    /\ tables' = Exec(tables, CreateTable("__root__" \o id.name,
                                          << Col("address", "BLOB UNIQUE NOT NULL"),
                                             Col("id", "INTEGER NOT NULL") >>)).T
    /\ pc' = IF r.ok THEN "idle" ELSE "crashed"
    /\ published' = IF r.ok THEN Push(published, id, data) ELSE published
    /\ UNCHANGED <<cache, pending, last_read, stored>>

\* DB::publish after the INSERT gave r
published_row(id, data, r) ==
    /\ handled' = "publish"
    /\ module_tbl' = r.tbl
    /\ pc' = IF r.ok THEN "idle" ELSE "crashed"
    /\ published' = IF r.ok THEN Push(published, id, data) ELSE published
    /\ UNCHANGED <<tables, cache, pending, last_read, stored>>

\* DB::publish
publish(id, data) == published_row(id, data, insert_module(module_tbl, id, data))

\* DB::delete: todo!()
delete(address, tag) ==
    /\ handled' = "delete"
    /\ pc' = "crashed"
    /\ UNCHANGED <<dbVars, cache, pending, last_read, stored, published>>

\* DB::store on the resource the annotator gave: the statements of generate_sql
\* are computed, to be executed one at a time
store_resource(entry, env, resource) ==
    /\ handled' = "store"
    /\ cache' = CacheAfter(cache, env, resource.used)
    /\ IF resource.ok
       THEN /\ pc' = "storing"
            /\ pending' = generate_sql(entry.address, resource.v, tables).log
       ELSE /\ pc' = "crashed"
            /\ UNCHANGED pending
    /\ UNCHANGED <<dbVars, last_read, stored, published>>

\* annotator.view_resource(tag, v).unwrap(), then DB::store up to the first
\* statement of generate_sql
store(entry) ==
    store_resource(entry, ModuleEnv(cache, module_tbl),
                   view_resource(ModuleEnv(cache, module_tbl), entry.path.tag, entry.op.v))

\* DB::execute_with_annotator
execute_with_annotator(entry) ==
    \/ /\ entry.path.k = "Code" /\ entry.op.k = "Deletion"
       /\ unpublish(entry.path.id)
    \/ /\ entry.path.k = "Code" /\ entry.op.k = "Value"
       /\ publish(entry.path.id, entry.op.v)
    \/ /\ entry.path.k = "Resource" /\ entry.op.k = "Deletion"
       /\ delete(entry.address, entry.path.tag)
    \/ /\ entry.path.k = "Resource" /\ entry.op.k = "Value"
       /\ store(entry)

\* one statement of generate_sql: sqlx::query(..).execute(db).await.unwrap()
StoreStep ==
    /\ pc = "storing"
    /\ LET r == Exec(tables, Head(pending))
       IN  IF ~r.ok
           THEN /\ pc' = "crashed"
                /\ UNCHANGED <<tables, pending, stored>>
           ELSE /\ tables' = r.T
                /\ pending' = Tail(pending)
                /\ IF Tail(pending) = <<>>
                   THEN /\ pc' = "idle"
                        /\ stored' = Push(stored, <<cur.address, cur.path.tag>>, cur.op.v)
                   ELSE UNCHANGED <<pc, stored>>
    /\ UNCHANGED <<module_tbl, cache, cur, handled, last_read, before, published, n_ops>>

\* the VM receives the result of a get; a panic ends the process
Returned(address, path, result) ==
    /\ last_read' = [address |-> address, path |-> path, result |-> result]
    /\ pc' = IF result = Panicked THEN "crashed" ELSE "idle"

\* StateView::get called by the VM
StateViewGet(address, path) ==
    /\ pc = "idle"
    /\ Returned(address, path, SqlState_get(address, path, DB))
    /\ UNCHANGED <<dbVars, cache, pending, cur, handled, histVars>>

\* a write-set entry is applied
Apply ==
    \E entry \in Entries :
        /\ n_ops < MaxOps
        /\ n_ops' = n_ops + 1
        /\ Dispatching(entry)
        /\ execute_with_annotator(entry)

Read == \E p \in ReadPaths : StateViewGet(p[1], p[2])

\* the database after initialize: __module exists and is empty
InitDB ==
    /\ module_tbl = <<>>
    /\ tables = <<>>
    /\ cache = <<>>
    /\ pc = "idle"
    /\ pending = <<>>
    /\ cur = NoEntry
    /\ handled = "none"
    /\ last_read = NoRead
    /\ before = [module_tbl |-> <<>>, tables |-> <<>>]
    /\ stored = <<>>
    /\ published = <<>>
    /\ n_ops = 0

\* main before it replays genesis
InitMain ==
    /\ phase = "genesis"
    /\ next_version = 0
    /\ latest_version = 0
    /\ todo = <<>>
    /\ versions = <<>>
    /\ outputs = <<>>
    /\ out_i = 1
    /\ ent_i = 1
    /\ applied = <<>>

Init ==
    /\ tag_a = MTag("Coin") /\ tag_b = MTag("Coin") /\ sql_a = "" /\ sql_b = ""
    /\ call = NoCall /\ ret = NotCalled
    /\ InitDB
    /\ InitMain

Next ==
    \/ Apply /\ UNCHANGED <<nameVars, replayVars>>
    \/ StoreStep /\ UNCHANGED <<nameVars, replayVars>>
    \/ Read /\ UNCHANGED <<nameVars, replayVars>>

Spec == Init /\ [][Next]_vars

(***************************************************************************)
(* The replay driver (main.rs): genesis, then the tail loop.  The VM and   *)
(* the endpoint are outside the program: the write sets the VM returns and *)
(* the version the endpoint reports are chosen from the sets below.        *)
(***************************************************************************)
Publish(id, data) == Entry(id.address, CodePath(id), Value(data))
Store(address, tag, value) == Entry(address, ResourcePath(tag), Value(value))

\* the write set of the genesis transaction
GenesisWriteSets ==
    { << Publish(ModuleId(1, "M"), "M.v1"), Store(10, MTag("Coin"), Coin(5)) >>,
      << Store(10, MTag("Coin"), Coin(5)), Publish(ModuleId(1, "M"), "M.v1") >>,
      << Publish(ModuleId(1, "M"), "M.v1"), Publish(ModuleId(1, "N"), "N.v1") >> }

\* the write sets of the later transactions
BlockWriteSets ==
    { << >>,
      << Store(11, MTag("Coin"), Coin(0)) >>,
      << Publish(ModuleId(1, "N"), "N.v1"),
         Store(11, FlagTag, MStruct(<< MV("Bool", TRUE), Coin(0) >>)) >>,
      << Store(10, MTag("Acct"), MStruct(<< Bytes(<<7, 9>>), Coin(5), Addrs(<<11, 10>>) >>)),
         Store(10, MTag("Coin"), Coin(0)) >>,
      << Entry(1, CodePath(ModuleId(1, "M")), Deletion) >>,
      << Entry(10, ResourcePath(MTag("Coin")), Deletion) >> }

\* the paths the VM reads while it executes a block
VmReadPaths ==
    { <<1, CodePath(ModuleId(1, "M"))>>, <<1, CodePath(ModuleId(1, "N"))>>,
      <<10, ResourcePath(MTag("Coin"))>>, <<11, ResourcePath(MTag("Coin"))>> }

\* the Code entries of a write set that carry a value
CodeValues(write_set) ==
    SelectSeq(write_set, LAMBDA e : e.path.k = "Code" /\ e.op.k = "Value")

\* the last value a write set gives the module id
LastCodeValue(write_set, id) ==
    LET vs == SelectSeq(CodeValues(write_set), LAMBDA e : e.path.id = id)
    IN  vs[Len(vs)].op.v

\* Resolver::from_pool_and_genesis_write_set: the cache holds the modules
\* of the Code entries of the write set, decoded
from_pool_and_genesis_write_set(write_set) ==
    [id \in {e.path.id : e \in SeqRange(CodeValues(write_set))} |->
        Deserialize(LastCodeValue(write_set, id))]

\* (lo..hi) of Rust: hi is excluded
VersionRange(lo, hi) == [i \in 1..(IF hi > lo THEN hi - lo ELSE 0) |-> lo + i - 1]

\* the first n elements of s, and the rest
Take(s, n) == SubSeq(s, 1, Min(n, Len(s)))
Drop(s, n) == SubSeq(s, Min(n, Len(s)) + 1, Len(s))

\* main, version 0: the VM executes genesis on GenesisState, the resolver
\* is built from the output's write set
ReplayGenesis ==
    /\ phase = "genesis"
    /\ next_version = 0
    /\ \E output \in GenesisWriteSets :
          /\ outputs' = <<output>>
          /\ cache' = from_pool_and_genesis_write_set(output)
    /\ out_i' = 1
    /\ ent_i' = 1
    /\ applied' = <<>>
    /\ phase' = "genesis_apply"
    /\ UNCHANGED <<dbVars, pc, pending, cur, handled, last_read, histVars,
                   next_version, latest_version, todo, versions>>

\* for (access_path, write_op) in output.write_set():
\*     db.execute_with_annotator(access_path, write_op, &annotator).await
DispatchNext ==
    /\ phase \in {"genesis_apply", "apply"}
    /\ out_i <= Len(outputs)
    /\ ent_i <= Len(outputs[out_i])
    /\ Dispatching(outputs[out_i][ent_i])
    /\ execute_with_annotator(outputs[out_i][ent_i])
    /\ applied' = Append(applied, outputs[out_i][ent_i])
    /\ ent_i' = ent_i + 1
    /\ UNCHANGED <<n_ops, phase, next_version, latest_version, todo, versions, outputs, out_i>>

\* for output in outputs: the write set of an output is exhausted
NextOutput ==
    /\ phase \in {"genesis_apply", "apply"}
    /\ Awaited
    /\ out_i <= Len(outputs)
    /\ ent_i > Len(outputs[out_i])
    /\ out_i' = out_i + 1
    /\ ent_i' = 1
    /\ UNCHANGED <<dbVars, procVars, histVars,
                   phase, next_version, latest_version, todo, versions, outputs, applied>>

\* a main that takes the chunk's last version as the next one
BlockAppliedAgain ==
    /\ phase \in {"genesis_apply", "apply"}
    /\ Awaited
    /\ out_i > Len(outputs)
    /\ IF phase = "genesis_apply"
       THEN /\ next_version' = next_version + 1
            /\ cache' = <<>>
            /\ phase' = "poll"
       ELSE /\ next_version' = versions[Len(versions)]
            /\ phase' = "chunk"
            /\ UNCHANGED cache
    /\ UNCHANGED <<dbVars, pc, pending, cur, handled, last_read, histVars,
                   latest_version, todo, versions, outputs, out_i, ent_i, applied>>

\* the outputs are exhausted: next_version += 1 and a resolver over the
\* pool after genesis, next_version = last_version + 1 after a chunk
BlockApplied ==
    /\ phase \in {"genesis_apply", "apply"}
    /\ Awaited
    /\ out_i > Len(outputs)
    /\ IF phase = "genesis_apply"
       THEN /\ next_version' = next_version + 1
            /\ cache' = <<>>
            /\ phase' = "poll"
       ELSE /\ next_version' = versions[Len(versions)] + 1
            /\ phase' = "chunk"
            /\ UNCHANGED cache
    /\ UNCHANGED <<dbVars, pc, pending, cur, handled, last_read, histVars,
                   latest_version, todo, versions, outputs, out_i, ent_i, applied>>

\* loop: get_metadata; sleep when latest_version < next_version, else
\* iterate over the chunks of next_version..latest_version
Poll ==
    /\ phase = "poll"
    /\ Awaited
    /\ \E latest \in latest_version..MaxVersion :
          /\ latest_version' = latest
          /\ IF latest < next_version
             THEN /\ phase' = "sleep"
                  /\ UNCHANGED todo
             ELSE /\ phase' = "chunk"
                  /\ todo' = VersionRange(next_version, latest)
    /\ UNCHANGED <<dbVars, procVars, histVars, next_version, versions, outputs, out_i, ent_i, applied>>

\* tokio::time::sleep(5 s) is over: continue
Wake ==
    /\ phase = "sleep"
    /\ phase' = "poll"
    /\ UNCHANGED <<dbVars, procVars, histVars,
                   next_version, latest_version, todo, versions, outputs, out_i, ent_i, applied>>

\* the chunk iterator: the next chunk's transactions are fetched and handed
\* to the VM, or the iterator is exhausted and main loops
NextChunk ==
    /\ phase = "chunk"
    /\ IF todo = <<>>
       THEN /\ phase' = "poll"
            /\ UNCHANGED <<todo, versions, outputs, applied>>
       ELSE /\ versions' = Take(todo, ChunkSize)
            /\ todo' = Drop(todo, ChunkSize)
            /\ outputs' = <<>>
            /\ applied' = <<>>
            /\ phase' = "exec"
    /\ UNCHANGED <<dbVars, procVars, histVars, next_version, latest_version, out_i, ent_i>>

\* a VM that still reads while main applies the outputs of the block
VmReadUnawaited ==
    /\ phase \in {"exec", "apply"}
    /\ \E p \in VmReadPaths : StateViewGet(p[1], p[2])
    /\ UNCHANGED replayVars

\* the VM, executing the block, reads through SqlState
VmRead ==
    /\ phase = "exec"
    /\ \E p \in VmReadPaths : StateViewGet(p[1], p[2])
    /\ UNCHANGED replayVars

\* DiemVM::execute_block returns one output per transaction
ExecReturn ==
    /\ phase = "exec"
    /\ Awaited
    /\ outputs' \in [1..Len(versions) -> BlockWriteSets]
    /\ out_i' = 1
    /\ ent_i' = 1
    /\ phase' = "apply"
    /\ UNCHANGED <<dbVars, procVars, histVars,
                   next_version, latest_version, todo, versions, applied>>

NextReplay ==
    \/ ReplayGenesis /\ UNCHANGED nameVars
    \/ DispatchNext /\ UNCHANGED nameVars
    \/ StoreStep /\ UNCHANGED <<nameVars, replayVars>>
    \/ NextOutput /\ UNCHANGED nameVars
    \/ BlockApplied /\ UNCHANGED nameVars
    \/ Poll /\ UNCHANGED nameVars
    \/ Wake /\ UNCHANGED nameVars
    \/ NextChunk /\ UNCHANGED nameVars
    \/ VmRead /\ UNCHANGED nameVars
    \/ ExecReturn /\ UNCHANGED nameVars

SpecReplay == Init /\ [][NextReplay]_vars

(***************************************************************************)
(* The StructTags the naming is exercised on: identifiers over a letter    *)
(* and `_` (a Move identifier starts with a letter), type arguments over   *)
(* primitives, vectors and struct tags.                                    *)
(***************************************************************************)
IdentChars == {"a", "_"}

RECURSIVE IdentsOfLen(_)
IdentsOfLen(n) ==
    IF n = 1 THEN {"a"}
    ELSE {s \o c : s \in IdentsOfLen(n - 1), c \in IdentChars}

NameIdents == UNION {IdentsOfLen(n) : n \in 1..MaxIdentLen}

PlainTags == {StructTag(1, m, n, <<>>) : m \in NameIdents, n \in NameIdents}

NameTypeArgs ==
    {TBool, TU8, TU64, TU128, TAddress, TVector(TU8), TVector(TVector(TU8)),
     TStruct(StructTag(1, "a", "a", <<>>)),
     TStruct(StructTag(1, "a", "a", <<TU8>>)),
     TVector(TStruct(StructTag(1, "a", "a", <<>>)))}

GenericTags ==
    {StructTag(1, "a", "a", <<p>>) : p \in NameTypeArgs}
        \cup {StructTag(1, "a", "a", <<p, q>>) : p, q \in {TU8, TAddress}}

NameTags == PlainTags \cup GenericTags

InitNames ==
    /\ tag_a \in NameTags
    /\ tag_b \in NameTags
    /\ sql_a = ""
    /\ sql_b = ""
    /\ call = NoCall /\ ret = NotCalled
    /\ InitDB
    /\ InitMain

\* both tags are rendered by struct_tag_to_sql
RenderTags ==
    /\ sql_a = ""
    /\ sql_a' = struct_tag_to_sql(tag_a)
    /\ sql_b' = struct_tag_to_sql(tag_b)
    /\ UNCHANGED <<tag_a, tag_b, call, ret, dbVars, procVars, histVars, replayVars>>

SpecNames == InitNames /\ [][RenderTags]_vars

(***************************************************************************)
(* Functions of the resolver and the annotator called on their own, on a   *)
(* database that holds the modules M and N, and A with or without B.       *)
(***************************************************************************)
\* the type arguments the tags are instantiated with
CallTypeArgs == {TU64, TAddress, TVector(TU8), TStruct(MTag("Coin")), TStruct(BoxTag(TU64))}

CallArgLists ==
    {<<>>} \cup {<<p>> : p \in CallTypeArgs} \cup {<<p, q>> : p, q \in CallTypeArgs}

ResolveCalls ==
    {[fn |-> "resolve_struct", tag |-> StructTag(1, "M", n, args)] :
        n \in {"Coin", "Acct", "Box", "Pair", "Wrap"}, args \in CallArgLists}

\* tags of the modules A and B, and a tag with such a tag as type argument
CyclicCalls ==
    {[fn |-> "resolve_struct", tag |-> StructTag(1, "A", n, <<>>)] :
        n \in {"X", "W", "P", "S", "T", "U", "None"}}
    \cup {[fn |-> "resolve_struct", tag |-> StructTag(1, "B", n, <<>>)] :
            n \in {"Y", "Z", "Q"}}
    \cup {[fn |-> "resolve_struct", tag |-> BoxTag(TStruct(StructTag(1, "A", n, <<>>)))] :
            n \in {"X", "S"}}

\* values that have the shape of the type and values that do not
CallValues ==
    { MStruct(<<>>),
      Coin(5),
      MStruct(<< MV("U64", 5), MV("U64", 6) >>),
      MStruct(<< MV("Bool", TRUE) >>),
      MStruct(<< MV("Bool", TRUE), Coin(0) >>),
      MStruct(<< MV("Bool", TRUE), MStruct(<<>>) >>),
      MStruct(<< MV("Bool", TRUE), Coin(0), MV("U8", 1) >>),
      MStruct(<< Bytes(<<7>>) >>),
      MStruct(<< Bytes(<<7>>), Coin(5) >>),
      MStruct(<< Bytes(<<7>>), Coin(5), Addrs(<<11>>) >>),
      MStruct(<< Bytes(<<7>>), MV("U64", 5), Addrs(<<11>>) >>),
      MStruct(<< MVector(<< Coin(5), Coin(0) >>) >>),
      MStruct(<< MVector(<< Coin(5), MStruct(<<>>) >>) >>) }

AnnotateCalls ==
    {[fn |-> "annotate_struct", tag |-> t, value |-> v] :
        t \in {MTag("Coin"), MTag("Acct"), MTag("Caps"), BoxTag(TU64), FlagTag},
        v \in CallValues}

ModuleRow(id, data) == [address |-> id.address, name |-> id.name, data |-> data]

\* the module tables the calls are made on
ModuleTables ==
    { << ModuleRow(ModuleId(1, "M"), "M.v1"), ModuleRow(ModuleId(1, "N"), "N.v1"),
         ModuleRow(ModuleId(1, "A"), "A.v1"), ModuleRow(ModuleId(1, "B"), "B.v1") >>,
      << ModuleRow(ModuleId(1, "M"), "M.v1"), ModuleRow(ModuleId(1, "N"), "N.v1"),
         ModuleRow(ModuleId(1, "A"), "A.v1") >> }

\* the publishes that made the module table tbl
PublishesOf(tbl) == [id \in StoredIds(tbl) |-> << ModuleRows(tbl, id)[1].data >>]

\* the calls are made on a database to which the modules were published
InitCalls ==
    /\ tag_a = MTag("Coin") /\ tag_b = MTag("Coin") /\ sql_a = "" /\ sql_b = ""
    /\ call \in ResolveCalls \cup CyclicCalls \cup AnnotateCalls
    /\ ret = NotCalled
    /\ module_tbl \in ModuleTables
    /\ tables = <<>>
    /\ cache = <<>>
    /\ pc = "idle"
    /\ pending = <<>>
    /\ cur = NoEntry
    /\ handled = "none"
    /\ last_read = NoRead
    /\ before = [module_tbl |-> <<>>, tables |-> <<>>]
    /\ stored = <<>>
    /\ published = PublishesOf(module_tbl)
    /\ n_ops = Len(module_tbl)
    /\ InitMain

\* the resolution has returned r, and the cache holds the modules it read; a
\* resolution that never returns leaves the caller inside it ("resolving")
Resolved(r) ==
    /\ ret' = IF Loops(r) THEN ret ELSE r
    /\ pc' = IF Loops(r) THEN "resolving" ELSE pc
    /\ cache' = CacheAfter(cache, ModuleEnv(cache, module_tbl), r.used)

\* Resolver::resolve_struct(tag)
CallResolveStruct ==
    /\ call.fn = "resolve_struct"
    /\ ret = NotCalled
    /\ pc = "idle"
    /\ Resolved(Resolver_resolve_struct(ModuleEnv(cache, module_tbl), call.tag))
    /\ UNCHANGED <<tag_a, tag_b, sql_a, sql_b, call, dbVars, pending, cur, handled,
                   last_read, histVars, replayVars>>

\* MoveValueAnnotator::annotate_struct(value, ty), ty the resolved type of the tag
CallAnnotateStruct ==
    /\ call.fn = "annotate_struct"
    /\ ret = NotCalled
    /\ ret' = annotate_struct(call.value,
                              Resolver_resolve_struct(ModuleEnv(cache, module_tbl), call.tag).v)
    /\ UNCHANGED <<tag_a, tag_b, sql_a, sql_b, call, dbVars, procVars, histVars, replayVars>>

NextCalls == CallResolveStruct \/ CallAnnotateStruct

SpecCalls == InitCalls /\ [][NextCalls]_vars

(***************************************************************************)
(* Stores on a database to which M and two modules whose names hold "__"   *)
(* were published: the struct tables of the tags and their columns.        *)
(***************************************************************************)
SchemaModules ==
    << ModuleRow(ModuleId(1, "M"), "M.v1"),
       ModuleRow(ModuleId(1, "a"), "a.v1"),
       ModuleRow(ModuleId(1, "a__a"), "a__a.v1") >>

\* resources of each tag, as (tag, value) pairs
SchemaResources ==
    {<<MTag("Coin"), Coin(n)>> : n \in {0, 5}}
    \cup {<<MTag("Opt"), MStruct(<< MV("U64", 0), MVector(<<>>) >>)>>,
          <<MTag("Opt"), MStruct(<< MV("U64", 1), MVector(<< MV("U64", 5) >>) >>)>>}
    \cup {<<StructTag(1, "a", "a__a", <<>>), MStruct(<< MV("U64", n) >>)>> : n \in {0, 5}}
    \cup {<<StructTag(1, "a__a", "a", <<>>), MStruct(<< MV("Bool", b) >>)>> : b \in BOOLEAN}

SchemaTags == {r[1] : r \in SchemaResources}

SchemaEntries == {Store(a, r[1], r[2]) : a \in Accounts, r \in SchemaResources}

InitSchema ==
    /\ tag_a = MTag("Coin") /\ tag_b = MTag("Coin") /\ sql_a = "" /\ sql_b = ""
    /\ call = NoCall /\ ret = NotCalled
    /\ module_tbl = SchemaModules
    /\ tables = <<>>
    /\ cache = <<>>
    /\ pc = "idle"
    /\ pending = <<>>
    /\ cur = NoEntry
    /\ handled = "none"
    /\ last_read = NoRead
    /\ before = [module_tbl |-> <<>>, tables |-> <<>>]
    /\ stored = <<>>
    /\ published = PublishesOf(module_tbl)
    /\ n_ops = 0
    /\ InitMain

\* a write-set entry that stores a resource is applied
ApplyStore ==
    \E entry \in SchemaEntries :
        /\ n_ops < MaxOps
        /\ n_ops' = n_ops + 1
        /\ Dispatching(entry)
        /\ execute_with_annotator(entry)

NextSchema ==
    \/ ApplyStore /\ UNCHANGED <<nameVars, replayVars>>
    \/ StoreStep /\ UNCHANGED <<nameVars, replayVars>>

SpecSchema == InitSchema /\ [][NextSchema]_vars

(***************************************************************************)
(* A U64 field through its column: the U64 arm of struct_to_sql, then the  *)
(* U64 arm of fetch_struct.  A 64-bit integer is its 8 bytes, the most     *)
(* significant first; an i64 is in two's complement, so `as u64` keeps the *)
(* bytes.                                                                  *)
(***************************************************************************)
\* u64 values at both ends of the range and around 2^63
U64Samples ==
    {<<t, m, m, m, m, m, m, l>> : t \in {0, 1, 127, 128, 255}, m \in {0, 255},
                                  l \in {0, 1, 5, 254, 255}}

\* i64::MAX
I64Max == <<127, 255, 255, 255, 255, 255, 255, 255>>

\* the value is below 2^63
FitsI64(v) == v[1] < 128

\* what an INTEGER NOT NULL column holds after INSERT .. VALUES (<i>) with i
\* written by format!("{}", i): SQLite reads a decimal literal that fits an
\* i64 as an INTEGER and a larger one as the nearest REAL, which the INTEGER
\* affinity of the column leaves a REAL since it does not fit an i64
u64_column(i) ==
    IF FitsI64(i) THEN [t |-> "int64", bits |-> i] ELSE [t |-> "real", nearest |-> i]

\* row.get::<i64, _>(column_index): an INTEGER is its value; a REAL either
\* fails sqlx's check of the column type (get unwraps: a panic) or is read by
\* sqlite3_column_int64, which gives i64::MAX for a REAL of 2^63 or more
get_i64(x) ==
    IF x.t = "int64" THEN {Ok(x.bits)}
    ELSE {Err("mismatched types"), Ok(I64Max)}

\* no column written yet
NoColumn == [t |-> "none"]

U64Calls == {[fn |-> "u64_field", value |-> v, column |-> NoColumn] : v \in U64Samples}

InitU64 ==
    /\ tag_a = MTag("Coin") /\ tag_b = MTag("Coin") /\ sql_a = "" /\ sql_b = ""
    /\ call \in U64Calls
    /\ ret = NotCalled
    /\ InitDB
    /\ InitMain

\* struct_to_sql, the arm AnnotatedMoveValue::U64(i), and the INSERT
WriteU64 ==
    /\ call.fn = "u64_field"
    /\ call.column = NoColumn
    /\ call' = [call EXCEPT !.column = u64_column(call.value)]
    /\ UNCHANGED <<tag_a, tag_b, sql_a, sql_b, ret, dbVars, procVars, histVars, replayVars>>

\* fetch_struct, the arm Type::U64: MoveValue::U64(row.get::<i64, _>(..) as u64)
ReadU64 ==
    /\ call.fn = "u64_field"
    /\ call.column # NoColumn
    /\ ret = NotCalled
    /\ \E r \in get_i64(call.column) : ret' = r
    /\ UNCHANGED <<tag_a, tag_b, sql_a, sql_b, call, dbVars, procVars, histVars, replayVars>>

NextU64 == WriteU64 \/ ReadU64

SpecU64 == InitU64 /\ [][NextU64]_vars

(***************************************************************************)
(* Properties                                                              *)
(***************************************************************************)
Last(s) == s[Len(s)]

IsStore(e) == e.path.k = "Resource" /\ e.op.k = "Value"
IsPublish(e) == e.path.k = "Code" /\ e.op.k = "Value"
IsDeletion(e) == e.op.k = "Deletion"
Key(e) == <<e.address, e.path.tag>>

\* execute_with_annotator panicked on cur (a panic of a read came later)
EntryFailed == pc = "crashed" /\ last_read.result # Panicked
\* the store of cur has been dispatched and has not returned
StoreUnfinished == IsStore(cur) /\ (pc = "storing" \/ EntryFailed)

\* cur is a store for an (address, tag) a store has returned for before
SecondStore ==
    /\ IsStore(cur)
    /\ Key(cur) \in DOMAIN stored
    /\ StoreUnfinished \/ Len(stored[Key(cur)]) >= 2

\* cur is a store of the value the store before it stored for (address, tag)
SameValueAgain ==
    /\ SecondStore
    /\ IF StoreUnfinished THEN Last(stored[Key(cur)]) = cur.op.v
       ELSE stored[Key(cur)][Len(stored[Key(cur)]) - 1] = cur.op.v

RowCount(T, name) == IF name \in DOMAIN T THEN Len(T[name].rows) ELSE 0

\* the struct table, the root table and the element tables of a tag
TablesOf(tag) ==
    {struct_tag_to_sql(tag), "__root__" \o struct_tag_to_sql(tag)}
    \cup {vector_table_name(tag, f.name) :
            f \in SeqRange(resolve_struct(tag, module_tbl).v.fields)}

\* __root__<tag> holds a row for the address
HoldsResource(T, address, tag) ==
    /\ ("__root__" \o struct_tag_to_sql(tag)) \in DOMAIN T
    /\ \E r \in SeqRange(T["__root__" \o struct_tag_to_sql(tag)].rows) :
            r.vals["address"] = SqlBlob(AddressBytes(address))

\* the module or the resource a Deletion names is stored
TargetStored(e) ==
    IF e.path.k = "Code" THEN ModuleRows(module_tbl, e.path.id) # <<>>
    ELSE HoldsResource(tables, e.address, e.path.tag)

\* the handler of DB that the dispatch table gives an entry
HandlerFor(e) ==
    CASE e.path.k = "Code" /\ e.op.k = "Deletion" -> "unpublish"
      [] e.path.k = "Code" /\ e.op.k = "Value" -> "publish"
      [] e.path.k = "Resource" /\ e.op.k = "Deletion" -> "delete"
      [] e.path.k = "Resource" /\ e.op.k = "Value" -> "store"

\* C1: after a store of V for (address, tag) returned on a database that held
\* no resource for (address, tag), the state-view read of Resource(tag) at
\* address returns Some(bytes) and the bytes are those of V
C1_WriterReaderRoundTrip ==
    (IsStore(cur) /\ ~StoreUnfinished /\ Len(stored[Key(cur)]) = 1)
        => SqlState_get(cur.address, cur.path, DB) = Some(cur.op.v)

\* C2: a store of V' for an (address, tag) that already holds a stored value
\* completes, and the read of the root resource then yields V'
C2_DiffCorrectness ==
    SecondStore =>
        /\ ~EntryFailed
        /\ ~StoreUnfinished => SqlState_get(cur.address, cur.path, DB) = Some(cur.op.v)

\* C3: storing for (address, tag) the value it already holds succeeds, emits
\* no UPDATE and adds no row to the struct table, the root table or an
\* element table of the tag
C3_DiffIdempotence ==
    SameValueAgain =>
        /\ ~EntryFailed
        /\ \A i \in 1..Len(pending) : pending[i].op # "UPDATE"
        /\ \A name \in TablesOf(cur.path.tag) :
                RowCount(tables, name) = RowCount(before.tables, name)

\* C4: a state-view read of Resource(tag) at an address no store has returned
\* for gives absent; it does not fail or crash
C4_AbsentWhenNeverStored ==
    (last_read.path.k = "Resource"
        /\ <<last_read.address, last_read.path.tag>> \notin DOMAIN stored)
        => last_read.result = Absent

\* C5: a state-view read of Code(id) returns exactly the bytes published for
\* id, and absent for an id never published
C5_ModuleRoundTrip ==
    \A id \in ModuleIds :
        SqlState_get(id.address, CodePath(id), DB)
            = IF id \in DOMAIN published THEN Some(Last(published[id])) ELSE Absent

\* a module was published and the VM read back its bytes
C5_Witness ==
    /\ last_read.path.k = "Code"
    /\ last_read.path.id \in DOMAIN published
    /\ last_read.result = Some("M.v2")
    /\ pc = "idle"

\* C6: publishing a module id that is already stored fails, and __module
\* keeps exactly one row for the id, with the bytes published first
C6_RepublishFails ==
    /\ \A id \in StoredIds(module_tbl) :
            /\ Len(ModuleRows(module_tbl, id)) = 1
            /\ id \in DOMAIN published
            /\ ModuleRows(module_tbl, id)[1].data = published[id][1]
    /\ (IsPublish(cur) /\ ModuleRows(before.module_tbl, cur.path.id) # <<>>)
            => (EntryFailed /\ module_tbl = before.module_tbl)

\* a second publish of a stored module, with other bytes, has failed
C6_Witness ==
    /\ IsPublish(cur)
    /\ ModuleRows(before.module_tbl, cur.path.id) # <<>>
    /\ ModuleRows(module_tbl, cur.path.id)[1].data # cur.op.v
    /\ pc = "crashed"

C8_DeletionNeverSilent ==
    IsDeletion(cur) =>
        /\ ~EntryFailed => ~TargetStored(cur)
        /\ EntryFailed => DB = before

\* the Deletion of a stored resource has failed
C8_Witness ==
    /\ IsDeletion(cur)
    /\ cur.path.k = "Resource"
    /\ TargetStored(cur)
    /\ pc = "crashed"

RECURSIVE Flatten(_)
\* the entries of the outputs in the VM's iteration order
Flatten(outs) == IF outs = <<>> THEN <<>> ELSE Head(outs) \o Flatten(Tail(outs))

\* the entries of the current block dispatched so far are the entries
\* before the place the loops of main are at, in the VM's order
AppliedInOrder ==
    phase \in {"genesis_apply", "apply"} =>
        /\ applied = SubSeq(Flatten(outputs), 1, Len(applied))
        /\ Len(applied) = Len(Flatten(SubSeq(outputs, 1, out_i - 1))) + ent_i - 1

\* an entry is dispatched only when the one before it has returned
DispatchAfterReturn ==
    applied' # applied /\ applied' # <<>> => (pc = "idle" /\ pending = <<>>)

\* C9: the entries of a block are dispatched in the VM's iteration order,
\* each after the database effects of the one before it are complete
C9_AppliedInVmOrder == []AppliedInOrder /\ [][DispatchAfterReturn]_vars

\* the second output's first entry was dispatched after a store of the first
C9_Witness ==
    /\ phase = "apply"
    /\ out_i = 2
    /\ Len(applied) >= 2
    /\ IsStore(applied[1])
    /\ pc = "idle"

\* C10: tag_to_table is injective: distinct StructTags get distinct table names
C10_TagToTableInjective ==
    (sql_a # "" /\ tag_a # tag_b) => sql_a # sql_b

\* the tables that hold struct rows: those created with an `__id` column
StructTables(T) == {n \in DOMAIN T : "__id" \in SeqRange(ColNames(T[n].cols))}

RootTable(tag) == "__root__" \o struct_tag_to_sql(tag)

\* the rows of __root__<tag> for the address
RootRows(T, address, tag) ==
    IF RootTable(tag) \notin DOMAIN T THEN <<>>
    ELSE SelectSeq(T[RootTable(tag)].rows,
                   LAMBDA r : r.vals["address"] = SqlBlob(AddressBytes(address)))

\* C11: in every database state the `__id` values of a struct table are
\* pairwise distinct, and __root__<tag> holds at most one row per address and
\* exactly one row for each address a store of the tag has returned for
C11_KeysUnique ==
    /\ \A n \in StructTables(tables) :
            \A i, j \in 1..Len(tables[n].rows) :
                i # j => ColumnValue(tables[n], tables[n].rows[i], "__id")
                            # ColumnValue(tables[n], tables[n].rows[j], "__id")
    /\ \A tag \in ResourceTags, a \in Accounts :
            /\ Len(RootRows(tables, a, tag)) <= 1
            /\ <<a, tag>> \in DOMAIN stored => Len(RootRows(tables, a, tag)) = 1

\* a second store for an address has been refused by the root table, after
\* it added a row to the struct table
C11_Witness ==
    /\ IsStore(cur)
    /\ pc = "crashed"
    /\ Key(cur) \in DOMAIN stored
    /\ Len(RootRows(tables, cur.address, cur.path.tag)) = 1
    /\ RowCount(tables, struct_tag_to_sql(cur.path.tag)) = 2

\* the module of the tag is stored and the tag's table was created by a store
Fetchable(tag) ==
    /\ ModuleRows(module_tbl, ModuleId(tag.address, tag.module)) # <<>>
    /\ struct_tag_to_sql(tag) \in StructTables(tables)

\* fetch_struct of an id the tag's table has no row for gives absent
AbsentRowIsAbsent ==
    \A tag \in {t \in ResourceTags : Fetchable(t)} :
        fetch_struct(tag, RowCount(tables, struct_tag_to_sql(tag)) + 1, DB) = Ok(Absent)

\* fetch_struct of the row a root row points to gives the value stored there
RootedRowIsValue ==
    \A key \in DOMAIN stored :
        fetch_struct(key[2], RootRows(tables, key[1], key[2])[1].vals["id"].v, DB)
            = Ok(stored[key][1])

\* C12: fetch_struct(tag, id) returns absent, not an error or a crash, when
\* the table of tag has no row with `__id` = id, and the value tree rooted at
\* the row when it exists
C12_FetchAbsentRow == AbsentRowIsAbsent /\ RootedRowIsValue

\* main builds a Resolver: from the genesis write set, and over the pool
\* once genesis is applied
NewResolver == phase = "genesis" \/ (phase = "genesis_apply" /\ phase' = "poll")

\* every cached module is still cached, and is the same module
CacheKept == \A id \in DOMAIN cache : id \in DOMAIN cache' /\ cache'[id] = cache[id]

\* get_module of a cached id gives the cached module, whatever __module holds
AnsweredFromCache ==
    \A id \in DOMAIN cache :
        Resolver_get_module(ModuleEnv(cache, module_tbl), id.address, id.name)
            = ROk(cache[id], {id})

\* C13: the module cache of one Resolver only grows: a cached id stays
\* cached, its module never changes, and a call for a cached id is answered
\* from the cache
C13_CacheOnlyGrows == []AnsweredFromCache /\ [][~NewResolver => CacheKept]_vars

\* the cache gained N and M by the store of a Flag, and a later store of a
\* Coin was resolved with both still cached
C13_Witness ==
    /\ phase = "apply"
    /\ DOMAIN cache = {ModuleId(1, "M"), ModuleId(1, "N")}
    /\ IsStore(cur)
    /\ cur.path.tag = MTag("Coin")
    /\ Len(applied) >= 3
    /\ pc = "idle"

\* Resolver::get_module(id) on the resolver and the database as they are
GetModule(id) == Resolver_get_module(ModuleEnv(cache, module_tbl), id.address, id.name)

\* the id is neither cached nor stored in __module
Miss(id) == id \notin DOMAIN cache /\ ModuleRows(module_tbl, id) = <<>>

RECURSIVE NoTyParam(_), Replaced(_, _)
\* the type holds no TyParam at any depth
NoTyParam(ty) ==
    CASE ty.k = "TyParam" -> FALSE
      [] ty.k = "Vector" -> NoTyParam(ty.e)
      [] ty.k = "Struct" ->
            /\ \A i \in 1..Len(ty.s.ty_args) : NoTyParam(ty.s.ty_args[i])
            /\ \A i \in 1..Len(ty.s.fields) : NoTyParam(ty.s.fields[i][2])
      [] OTHER -> TRUE

\* the type with every TyParam(i) replaced by the i-th of args
Replaced(ty, args) ==
    CASE ty.k = "TyParam" -> args[ty.i + 1]
      [] ty.k = "Vector" -> FVector(Replaced(ty.e, args))
      [] ty.k = "Struct" ->
            FStruct([ty.s EXCEPT
                !.ty_args = [i \in 1..Len(ty.s.ty_args) |-> Replaced(ty.s.ty_args[i], args)],
                !.fields = [i \in 1..Len(ty.s.fields) |->
                                <<ty.s.fields[i][1], Replaced(ty.s.fields[i][2], args)>>]])
      [] OTHER -> ty

\* the definition of the struct a tag of M names, and its unsubstituted type
DefOf(tag) == StructsOfM[StructIndex(StructsOfM, tag.name)]
BodyOf(tag) ==
    resolve_struct_definition(ModuleEnv(cache, module_tbl), Deserialize("M.v1"),
                              StructIndex(StructsOfM, tag.name), {}).v
ArgsOf(tag) == resolve_types(ModuleEnv(cache, module_tbl), tag.type_params).v

\* C15: resolve_struct(tag) replaces every TyParam(i) of the definition's
\* body and type-argument list by the i-th resolved type argument of the
\* tag, fails when a TyParam index is not below the number of type
\* arguments, and a type it returns holds no TyParam at any depth
C15_Substitution ==
    (call.fn = "resolve_struct" /\ call.tag.module = "M" /\ ret # NotCalled) =>
        /\ DefOf(call.tag).nparams > Len(call.tag.type_params) =>
                (~ret.ok /\ ret.v = "struct cannot be resolved")
        /\ ret.ok =>
            /\ NoTyParam(FStruct(ret.v))
            /\ FStruct(ret.v) = Replaced(FStruct(BodyOf(call.tag)), ArgsOf(call.tag))

\* Wrap<Box<u64>> was resolved: the parameter is replaced inside the type
\* arguments and the field of the inner Box
C15_Witness ==
    /\ call.fn = "resolve_struct"
    /\ call.tag = StructTag(1, "M", "Wrap", << TStruct(BoxTag(TU64)) >>)
    /\ ret.ok
    /\ ret.v.fields[1][2].s.fields[1][2].k = "Struct"

\* the tags with a field of type Vector<Vector<T>>: Keys (T = u8), Grid (T = u64)
NestedVectorTags == {MTag("Keys"), MTag("Grid")}

\* the element table of the one field of such a tag
NestedTable(tag) == vector_table_name(tag, DefOf(tag).fields[1].name)

\* the store of cur was dispatched with the tag's module stored and no
\* resource of the tag at the address
FreshStore ==
    /\ IsStore(cur)
    /\ ModuleRows(before.module_tbl, ModuleId(cur.path.tag.address, cur.path.tag.module)) # <<>>
    /\ RootRows(before.tables, cur.address, cur.path.tag) = <<>>

\* the slots of the element rows of parent row id, in rowid order
Slots(T, table, id) == Select(T, <<"slot">>, table, "parent_id", SqlInt(id))

\* the `__id` the root row of (address, tag) points to
RootId(T, address, tag) == RootRows(T, address, tag)[1].vals["id"].v

TypeOfCall == Resolver_resolve_struct(ModuleEnv(cache, module_tbl), call.tag).v

\* the variant of the value is the one of the type
VariantMatches(value, ty) == value.k = ty.k

\* some field of the value has a variant other than that of the field's type
FieldVariantMismatch(value, ty) ==
    \E i \in 1..Min(Len(value.v), Len(ty.fields)) :
        ~VariantMatches(value.v[i], ty.fields[i][2])

\* annotate_struct(value, ty) gave r
MismatchReported(value, ty, r) ==
    /\ FieldVariantMismatch(value, ty) => ~r.ok
    /\ Len(value.v) # Len(ty.fields) => ~r.ok
    /\ r.ok => Len(r.v.value) >= Len(ty.fields)

\* C17: annotate_struct(value, type) fails when a field's value variant does
\* not match the field's type and when the value's number of fields differs
\* from the type's; it never returns a struct with fewer fields than the type
C17_ShapeMismatchReported ==
    (call.fn = "annotate_struct" /\ ret # NotCalled) =>
        MismatchReported(call.value, TypeOfCall, ret)

\* the columns of the table of tag that hold fields, in the table's order
WriterColumns(T, tag) ==
    SelectSeq(ColNames(T[struct_tag_to_sql(tag)].cols),
              LAMBDA c : c \notin PkCols(T[struct_tag_to_sql(tag)].cols))

\* fetch_struct reads a field of this type with fetch_vector
ReadFromElementTable(ty) == ty.k = "Vector" /\ ty.e.k # "U8"

\* the reader's columns of struct_ are the writer's, and no field with a
\* column of its own is read from an element table
ColumnsAgree(T, tag, struct_) ==
    /\ struct_columns(tag, struct_) = Ok(WriterColumns(T, tag))
    /\ \A f \in SeqRange(struct_.fields) :
            f.name \in SeqRange(WriterColumns(T, tag)) => ~ReadFromElementTable(f.type_)

\* C18: for every struct type stored, the ordered list of the fields the
\* writer gave a column equals the ordered list of columns the reader selects,
\* and a field stored inline is never looked up in an element table
C18_ColumnsAgree ==
    \A key \in DOMAIN stored :
        /\ resolve_struct(key[2], module_tbl).ok
        /\ ColumnsAgree(tables, key[2], resolve_struct(key[2], module_tbl).v)

\* the positions of the INSERTs into table in the statements log
InsertsInto(log, table) ==
    {j \in 1..Len(log) : log[j].op = "INSERT" /\ log[j].table = table}

\* the rows table has in T
RowsIn(T, table) == IF table \in DOMAIN T THEN Len(T[table].rows) ELSE 0

\* last_insert_rowid of statement j of log, run on the tables T
RowIdAt(T, log, j) ==
    RowsIn(T, log[j].table) + Cardinality({i \in InsertsInto(log, log[j].table) : i <= j})

\* the position in log of the INSERT of row id of table
RowInsert(T, log, table, id) ==
    {j \in InsertsInto(log, table) : RowIdAt(T, log, j) = id}

\* the value statement j of log gives column c
ValueAt(log, j, c) == log[j].values[IndexOf(log[j].names, c)]

\* the table of the structs a field or element of type ty of tag holds
NestedStructTable(tag, ty) == struct_tag_to_sql(SubTag(tag, ty).v.t)

\* the field or element of type ty of tag is a struct; a type parameter the
\* tag has no argument for is none
HoldsStruct(tag, ty) ==
    IF ty.k = "TypeParameter" /\ ty.i + 1 > Len(tag.type_params) THEN FALSE
    ELSE FieldArg(tag, ty).k = "Struct"

\* <<j, p>>: statement p of log inserts a row of tag whose field f holds the
\* id of the row that statement j inserts
FieldChildren(T, log, tag, f) ==
    IF ~HoldsStruct(tag, f.type_) THEN {}
    ELSE {jp \in (1..Len(log)) \X InsertsInto(log, struct_tag_to_sql(tag)) :
            /\ f.name \in SeqRange(log[jp[2]].names)
            /\ jp[1] \in RowInsert(T, log, NestedStructTable(tag, f.type_),
                                   ValueAt(log, jp[2], f.name).v)}

\* <<j, p, e>>: statement e of log inserts an element row of field f of the
\* row of tag that statement p inserts, and its slot holds the id of the row
\* that statement j inserts
ElementChildren(T, log, tag, f) ==
    IF ~(f.type_.k = "Vector" /\ HoldsStruct(tag, f.type_.e)) THEN {}
    ELSE {jpe \in (1..Len(log)) \X InsertsInto(log, struct_tag_to_sql(tag))
                                \X InsertsInto(log, vector_table_name(tag, f.name)) :
            /\ jpe[2] \in RowInsert(T, log, struct_tag_to_sql(tag),
                                    ValueAt(log, jpe[3], "parent_id").v)
            /\ jpe[1] \in RowInsert(T, log, NestedStructTable(tag, f.type_.e),
                                    ValueAt(log, jpe[3], "slot").v)}

\* the fields of the struct of tag, none when it does not resolve
FieldsOfTag(tag) ==
    IF resolve_struct(tag, module_tbl).ok
    THEN SeqRange(resolve_struct(tag, module_tbl).v.fields) ELSE {}

\* in the statements log of one store on the tables T, every nested struct's
\* INSERT is before the INSERT of the struct that contains it
ChildrenFirst(T, log) ==
    \A tag \in ResourceTags : \A f \in FieldsOfTag(tag) :
        /\ \A jp \in FieldChildren(T, log, tag, f) : jp[1] < jp[2]
        /\ \A jpe \in ElementChildren(T, log, tag, f) : jpe[1] < jpe[2]

\* in the statements log of one store on the tables T, a struct nested as a
\* field is inserted before the struct that contains it, and a struct nested
\* as a vector element after it and before its own element row
FieldChildrenFirst(T, log) ==
    \A tag \in ResourceTags : \A f \in FieldsOfTag(tag) :
        /\ \A jp \in FieldChildren(T, log, tag, f) : jp[1] < jp[2]
        /\ \A jpe \in ElementChildren(T, log, tag, f) :
                jpe[2] < jpe[1] /\ jpe[1] < jpe[3]

\* DB::store has computed the statements of one store
StoreBegins == pc = "idle" /\ pc' = "storing"

\* C19 as stated: within one store, the INSERT of every nested struct's row,
\* nested as a struct-typed field or as an element of a vector field, strictly
\* precedes the INSERT of the row of the struct that contains it
C19_ChildBeforeParent == [][StoreBegins => ChildrenFirst(tables', pending')]_vars

\* C19: within one store, the INSERT of a struct nested as a struct-typed
\* field strictly precedes the INSERT of the row that contains it; the INSERT
\* of a struct nested as a vector element comes strictly after the INSERT of
\* the row that contains the vector and strictly before its element row
C19_FieldChildBeforeParent == [][StoreBegins => FieldChildrenFirst(tables', pending')]_vars

\* a store whose value nests one struct as a field and others as elements
C19_Witness ==
    /\ pc = "storing" /\ tables = before.tables
    /\ \E tag \in ResourceTags : \E f, g \in FieldsOfTag(tag) :
            /\ FieldChildren(tables, pending, tag, f) # {}
            /\ Cardinality(ElementChildren(tables, pending, tag, g)) = 2

\* the fields of the struct of tag that are vectors kept in an element table:
\* their positions in the struct
ElementFields(tag) ==
    IF ~resolve_struct(tag, module_tbl).ok THEN {}
    ELSE {i \in 1..Len(resolve_struct(tag, module_tbl).v.fields) :
            /\ resolve_struct(tag, module_tbl).v.fields[i].type_.k = "Vector"
            /\ ~InlineVector(resolve_struct(tag, module_tbl).v.fields[i].type_.e)}

\* field f of the row of tag stored at address reads back as the elements
\* stored, in their order, and the parent has one element row for each
ElementsKept(T, address, tag, f, elements) ==
    /\ fetch_vector(tag, RootId(T, address, tag), f.name, f.type_.e, T) = Ok(elements)
    /\ Slots(T, vector_table_name(tag, f.name), RootId(T, address, tag)).ok
    /\ Len(Slots(T, vector_table_name(tag, f.name), RootId(T, address, tag)).v) = Len(elements)

\* C20: after any sequence of successful stores, fetch_vector for a parent row
\* and a non-primitive vector field returns exactly the elements written for
\* that parent, in the order of the stored vector, and an empty vector leaves
\* the parent with zero element rows
C20_ElementOrderAndIsolation ==
    pc = "idle" =>
        \A key \in DOMAIN stored : \A i \in ElementFields(key[2]) :
            ElementsKept(tables, key[1], key[2],
                         resolve_struct(key[2], module_tbl).v.fields[i],
                         stored[key][1].v[i].v)

\* the fields of the struct of tag that are vectors of structs: their
\* positions in the struct
StructVectorFields(tag) ==
    {i \in ElementFields(tag) :
        HoldsStruct(tag, resolve_struct(tag, module_tbl).v.fields[i].type_.e)}

RECURSIVE fetch_structs(_, _, _)
\* fetch_struct on the child id each element row holds in slot, in rowid order
fetch_structs(elem_tag, rows, db) ==
    IF rows = <<>> THEN Ok(<<>>)
    ELSE Cons(fetch_struct(elem_tag, Head(rows)[1].v, db),
              fetch_structs(elem_tag, Tail(rows), db))

\* field f of the row of tag at address reads as fetch_struct of its element
\* rows, which are the structs stored
StructsRead(db, address, tag, f, elements) ==
    /\ fetch_vector(tag, RootId(db.tables, address, tag), f.name, f.type_.e, db.tables)
         = fetch_structs(SubTag(tag, f.type_.e).v.t,
                         Slots(db.tables, vector_table_name(tag, f.name),
                               RootId(db.tables, address, tag)).v, db)
    /\ fetch_vector(tag, RootId(db.tables, address, tag), f.name, f.type_.e, db.tables)
         = Ok(elements)

\* C21: fetch_vector over a vector of structs returns, for each element row in
\* rowid order, the value fetch_struct gives for the child id held in slot, so
\* a stored vector of structs reads back as the vector of the stored structs
C21_VectorOfStructsRead ==
    pc = "idle" =>
        \A key \in DOMAIN stored : \A i \in StructVectorFields(key[2]) :
            StructsRead(DB, key[1], key[2],
                        resolve_struct(key[2], module_tbl).v.fields[i],
                        stored[key][1].v[i].v)

\* the tags stored whose struct has no fields
EmptyStored == {key \in DOMAIN stored : stored[key][1].v = <<>>}

\* the table of tag has __id as its only column, and the row generate_sql
\* rooted at address is found by WHERE __id = id
EmptyRowFound(T, address, tag) ==
    /\ struct_tag_to_sql(tag) \in DOMAIN T
    /\ T[struct_tag_to_sql(tag)].cols = << Col("__id", "INTEGER PRIMARY KEY") >>
    /\ Select(T, <<"__id">>, struct_tag_to_sql(tag), "__id",
              SqlInt(RootId(T, address, tag))) = Ok(<< <<SqlInt(RootId(T, address, tag))>> >>)

\* C22: storing a struct with no fields creates a table whose only column is
\* __id INTEGER PRIMARY KEY and inserts one row, whose id the reader's
\* WHERE __id = id lookup of that table finds
C22_EmptyStructRow ==
    \A key \in EmptyStored : EmptyRowFound(tables, key[1], key[2])

\* C23: a U64 field round-trips over the whole unsigned range: for every v
\* below 2^64, 2^63 and above included, the value the reader reconstructs from
\* the column equals the v the writer emitted as a decimal literal
C23_U64RoundTrip ==
    (call.fn = "u64_field" /\ ret # NotCalled) => ret = Ok(call.value)

\* the resolver is inside a resolution that never returns
NeverResolved == call.fn = "resolve_struct" /\ pc = "resolving"

\* the struct definitions of the stored modules that a definition names in
\* its fields, as (module id, struct name) pairs
RECURSIVE StructsNamed(_)
StructsNamed(ty) ==
    CASE ty.k = "Vector" -> StructsNamed(ty.e)
      [] ty.k = "Struct" ->
            {<<ModuleId(ty.address, ty.module), ty.name>>}
            \cup UNION {StructsNamed(ty.type_arguments[i]) : i \in 1..Len(ty.type_arguments)}
      [] OTHER -> {}

\* every (module id, struct name) of the stored modules
StoredStructs(tbl) ==
    UNION {{<<id, Deserialize(ModuleRows(tbl, id)[1].data).structs[i].name>> :
                i \in 1..Len(Deserialize(ModuleRows(tbl, id)[1].data).structs)} :
           id \in StoredIds(tbl)}

\* the stored definition named by s
StoredDef(tbl, s) ==
    Deserialize(ModuleRows(tbl, s[1])[1].data).structs[
        StructIndex(Deserialize(ModuleRows(tbl, s[1])[1].data).structs, s[2])]

\* s names t in a field
Names(tbl, s, t) ==
    \E i \in 1..Len(StoredDef(tbl, s).fields) : t \in StructsNamed(StoredDef(tbl, s).fields[i].type_)

RECURSIVE ReachedIn(_, _, _, _)
\* the stored structs reached from the set `from` in at most n steps of Names
ReachedIn(tbl, from, n, all) ==
    IF n = 0 THEN from
    ELSE ReachedIn(tbl, from \cup {t \in all : \E s \in from : Names(tbl, s, t)}, n - 1, all)

\* some stored struct definition holds itself, directly or through others
RecursiveStructs(tbl) ==
    \E s \in StoredStructs(tbl) :
        s \in ReachedIn(tbl, {t \in StoredStructs(tbl) : Names(tbl, s, t)},
                        Cardinality(StoredStructs(tbl)), StoredStructs(tbl))

\* the struct definitions reached from the struct s, s included
ReachedFrom(tbl, s) ==
    ReachedIn(tbl, {s} \cap StoredStructs(tbl), Cardinality(StoredStructs(tbl)),
              StoredStructs(tbl))

\* a struct reached from s holds itself
ReachesRecursive(tbl, s) ==
    \E t \in ReachedFrom(tbl, s) :
        t \in ReachedIn(tbl, {u \in StoredStructs(tbl) : Names(tbl, t, u)},
                        Cardinality(StoredStructs(tbl)), StoredStructs(tbl))

RECURSIVE TagStructs(_)
\* the structs a tag names: its own and those of its type arguments
TagStructs(tag) ==
    {<<ModuleId(tag.address, tag.module), tag.name>>}
    \cup UNION {IF tag.type_params[i].k = "Struct" THEN TagStructs(tag.type_params[i].t)
                ELSE {} : i \in 1..Len(tag.type_params)}

\* the modules stored use each other's structs: A a struct of B, B one of A
ModulesCyclic(tbl) ==
    \E s, t, u, v \in StoredStructs(tbl) :
        /\ s[1] = v[1] /\ t[1] = u[1] /\ s[1] # t[1]
        /\ Names(tbl, s, t) /\ Names(tbl, u, v)

\* C24 as stated: resolve_struct(tag) terminates, with a type or an error,
\* for every tag over every set of stored modules, modules that reference
\* each other cyclically included
C24_ResolveTerminates == ~NeverResolved

\* C24: resolve_struct(tag) terminates, with a type or an error, for every
\* tag that reaches no struct definition holding itself, over every set of
\* stored modules, modules that reference each other cyclically included
C24_ResolveTerminatesUnlessRecursive ==
    (call.fn = "resolve_struct" /\ NeverResolved) =>
        \E s \in TagStructs(call.tag) : ReachesRecursive(module_tbl, s)

\* a struct of A that holds a struct of B is resolved while B holds a struct
\* of A
C24_Witness ==
    /\ call.fn = "resolve_struct"
    /\ call.tag = StructTag(1, "A", "X", <<>>)
    /\ ModulesCyclic(module_tbl)
    /\ ret.ok
    /\ ret.v.fields[1][2].s.name = "Y"

\* a step in which the VM gets the result of a SqlState::get
ReadReturns == last_read' # last_read

\* a step that changes the database
Writes == DB' # DB

\* the VM starts to execute a chunk
ExecStarts == phase # "exec" /\ phase' = "exec"

\* every write op of the outputs main holds has been applied and has returned
AllApplied ==
    /\ out_i > Len(outputs)
    /\ Len(applied) = Len(Flatten(outputs))
    /\ pc = "idle"
    /\ pending = <<>>

\* reads happen while the VM executes and nothing is being written, writes
\* while main applies, and the VM starts on a chunk when the block before it
\* is applied in full
NoOverlap ==
    /\ ReadReturns => (phase = "exec" /\ pc = "idle" /\ pending = <<>> /\ ~Writes)
    /\ Writes => phase \in {"genesis_apply", "apply"}
    /\ ExecStarts => AllApplied

\* C25: no state-view read overlaps a write-set application: the VM executes
\* a chunk, with every SqlState::get it makes, only after all write ops of the
\* earlier chunks are applied, and no write op of a chunk is applied before
\* the VM's execution of the chunk has returned
C25_NoReadOverlapsWrite == [][NoOverlap]_vars

\* the VM, executing a later chunk, has read a resource an earlier block stored
C25_Witness ==
    /\ phase = "exec"
    /\ next_version >= 2
    /\ last_read.result.r = "Some"
    /\ last_read.path.k = "Resource"
    /\ stored # <<>>

\* table has exactly one row whose __id is id
HasRow(T, table, id) ==
    Select(T, <<"__id">>, table, "__id", SqlInt(id)) = Ok(<< <<SqlInt(id)>> >>)

\* the values of column c in the rows of table, none when there is no such table
Column(T, table, c) ==
    IF table \in DOMAIN T
    THEN {ColumnValue(T[table], T[table].rows[i], c) : i \in 1..Len(T[table].rows)}
    ELSE {}

\* the fields of tag that have a column holding the id of a struct row
StructColumns(T, tag) ==
    {f \in FieldsOfTag(tag) :
        /\ HoldsStruct(tag, f.type_)
        /\ struct_tag_to_sql(tag) \in DOMAIN T
        /\ f.name \in SeqRange(ColNames(T[struct_tag_to_sql(tag)].cols))}

\* the fields of tag that are vectors of structs
StructElements(tag) ==
    {f \in FieldsOfTag(tag) : f.type_.k = "Vector" /\ HoldsStruct(tag, f.type_.e)}

\* every id held in a root table, a struct-typed column or a slot of a struct
\* element table of tag is the __id of a row of the table it points into
RefsResolve(T, tag) ==
    /\ \A x \in Column(T, RootTable(tag), "id") : HasRow(T, struct_tag_to_sql(tag), x.v)
    /\ \A f \in StructColumns(T, tag) :
            \A x \in Column(T, struct_tag_to_sql(tag), f.name) :
                HasRow(T, NestedStructTable(tag, f.type_), x.v)
    /\ \A f \in StructElements(tag) :
            \A x \in Column(T, vector_table_name(tag, f.name), "slot") :
                HasRow(T, NestedStructTable(tag, f.type_.e), x.v)

\* C26: referential integrity holds in every reachable database state, the
\* states between the statements of one store included: every id in a root
\* table, every struct-typed column value and every slot of a struct element
\* table is the __id of an existing row of the table it refers to
C26_ReferentialIntegrity == \A tag \in ResourceTags : RefsResolve(tables, tag)

\* the store of cur has failed: execute_with_annotator panicked on it
StoreFailed == IsStore(cur) /\ EntryFailed

\* the rows of table in T, none when there is no such table
RowsOf(T, table) == IF table \in DOMAIN T THEN T[table].rows ELSE <<>>

\* no table has gained, lost or changed a row
RowsUnchanged(T0, T) ==
    \A t \in (DOMAIN T0) \cup (DOMAIN T) : RowsOf(T, t) = RowsOf(T0, t)

\* no table has lost or changed a row, and no root table has gained one
RowsKept(T0, T) ==
    \A t \in (DOMAIN T0) \cup (DOMAIN T) :
        /\ Len(RowsOf(T, t)) >= Len(RowsOf(T0, t))
        /\ SubSeq(RowsOf(T, t), 1, Len(RowsOf(T0, t))) = RowsOf(T0, t)
        /\ t \in {RootTable(tag) : tag \in ResourceTags} => RowsOf(T, t) = RowsOf(T0, t)

\* C27 as stated: a failed store leaves the database unchanged: no struct
\* table, element table or root table has gained, lost or changed a row
\* relative to the state before the call
C27_FailedStoreUnchanged == StoreFailed => RowsUnchanged(before.tables, tables)

\* C27: after a failed store no table has lost or changed a row and no root
\* table has gained one; the struct and element tables keep the rows that the
\* statements before the failing one inserted
C27_FailedStoreKeepsRows == StoreFailed => RowsKept(before.tables, tables)

\* a store has failed on its root INSERT and its struct row has stayed
C27_Witness ==
    /\ StoreFailed
    /\ pending # <<>>
    /\ Head(pending).op = "INSERT"
    /\ Head(pending).table = RootTable(cur.path.tag)
    /\ Len(RowsOf(tables, struct_tag_to_sql(cur.path.tag)))
         > Len(RowsOf(before.tables, struct_tag_to_sql(cur.path.tag)))

\* main takes the next chunk off the iterator
ChunkTaken == phase = "chunk" /\ phase' = "exec"

\* main has applied the outputs of a chunk
ChunkApplied == phase = "apply" /\ phase' = "chunk"

\* a chunk starts at next_version, holds between one and ChunkSize versions
\* in a row, and applying it moves next_version past its last version;
\* nothing else changes next_version
ContiguousStep ==
    /\ next_version' >= next_version
    /\ ChunkTaken =>
          /\ Len(versions') \in 1..ChunkSize
          /\ versions' = VersionRange(next_version, next_version + Len(versions'))
    /\ ChunkApplied =>
          /\ versions[1] = next_version
          /\ next_version' = next_version + Len(versions)
    /\ next_version' # next_version => phase \in {"genesis_apply", "apply"}

\* C28: the tail loop replays versions contiguously and at most once: the
\* versions applied are next_version, next_version + 1, ... without a gap or
\* a repeat across chunks (each of at most ChunkSize versions) and across
\* polls, and next_version never decreases
C28_ContiguousReplay == [][ContiguousStep]_vars

\* the chunk after a one-version chunk of an earlier poll is applied in full
C28_Witness ==
    /\ phase = "apply"
    /\ versions = <<2, 3>>
    /\ next_version = 2
    /\ AllApplied
    /\ applied # <<>>

\* main returns to get_metadata: the chunk iterator is exhausted
LoopsBack == phase = "chunk" /\ phase' = "poll"

\* get_metadata returned and main goes on to the chunks without a sleep
PollsOn == phase = "poll" /\ phase' = "chunk"

\* main returns to polling only with every version up to and including the
\* reported one applied, and a poll that finds nothing to apply sleeps
CatchUpStep ==
    /\ LoopsBack => next_version > latest_version
    /\ PollsOn => todo' # <<>>

\* C29: replay catches up with the chain: with the endpoint reporting the
\* latest version L, main applies every version from next_version up to and
\* including L, and once caught up it sleeps between two polls
C29_CatchesUp == [][CatchUpStep]_vars

\* the statement the store is about to execute is on the struct table of a tag
OnStructTable(op) ==
    /\ pc = "storing"
    /\ Head(pending).op = op
    /\ \E tag \in SchemaTags \cup ResourceTags : Head(pending).table = struct_tag_to_sql(tag)

\* the INSERT names only columns of the table
InsertFits ==
    OnStructTable("INSERT") =>
        /\ Head(pending).table \in DOMAIN tables
        /\ SeqRange(Head(pending).names)
              \subseteq SeqRange(ColNames(tables[Head(pending).table].cols))

\* the CREATE TABLE IF NOT EXISTS of a table that exists lists the table's columns
CreateAgrees ==
    (OnStructTable("CREATE") /\ Head(pending).table \in DOMAIN tables) =>
        tables[Head(pending).table].cols = Head(pending).cols

\* C30: the schema of a struct table is a function of the StructTag alone:
\* every store of a tag generates the column list the table of the tag was
\* created with, and every INSERT names only columns of that table
C30_SchemaOfTag == InsertFits /\ CreateAgrees

====
